---- MODULE Spec2Model ----
(***************************************************************************)
(* Smart-farm anomaly monitoring: the anomaly-to-recommendation pipeline.  *)
(*                                                                         *)
(*   Backend/ml_module/anomaly_detector.py   IsolationForestDetector       *)
(*   Backend/ml_module/views.py              MLViewSet, model files        *)
(*   Backend/ai_agent/rule_engine.py         AgriculturalRuleEngine        *)
(*   Backend/ai_agent/agent_service.py       AgentService                  *)
(*                                                                         *)
(* Numbers.  Anomaly scores and confidences are Python floats; they are    *)
(* modelled in fixed point, in units of 1/10000 (One = 1.0).  The fitted   *)
(* scikit-learn scorer is a black box: a data row is represented by the    *)
(* scorer's answer for it, a pair (pred, score) with pred in {1, -1}.      *)
(***************************************************************************)
EXTENDS Integers, Sequences, FiniteSets, TLC

VARIABLES
    det,        \* detector instance -> IsolationForestDetector fields
    fs,         \* the model file of the unit-level detector runs
    clock,      \* datetime.now() of the unit-level detector runs
    dlast,      \* the last detector call: arguments, outcome, state before
    conf_in,    \* detect_with_confidence as a function: its arguments
    conf_out,   \* detect_with_confidence as a function: its answer
    rule_in,    \* analyze_anomaly as a function: the anomaly and the store
    rule_out,   \* analyze_anomaly as a function: the context and the answer
    conf_events,\* the AnomalyEvent rows the detect view makes of conf_out
    disk,       \* sensor type -> the model file trained_models/<type>_model.pkl
    trainer,    \* the train request in flight: position, sensor type, detector
    ml_clock,   \* datetime.now() of the train requests
    ml_readings,\* (plot, sensor type) -> number of SensorReading rows
    ml_saved,   \* history: the sensor types whose model file was written completely
    ml_resp,    \* the last response of an ML endpoint, with the rows it inserted
    ag_events,  \* the AnomalyEvent rows the agent works on
    ag_recs,    \* the AgentRecommendation table
    ag_workers, \* the post_save handler, the manual endpoint, process-pending
    ag_ret,     \* the last return of process_anomaly
    ag_resp,    \* the last response of an agent endpoint
    pre_in,     \* the preprocessor as a function: window_size, values, use_features
    pre_out,    \* the preprocessor as a function: the call and its answer
    sim_now,    \* the simulator's datetime.now(), in minutes since simulation start
    sim_scenarios, \* the scenarios registered with the AnomalyManager
    sim_reading \* the last reading passed through AnomalyManager.modify_reading

detVars == <<det, fs, clock, dlast>>
confVars == <<conf_in, conf_out, conf_events>>
ruleVars == <<rule_in, rule_out>>
mlVars == <<disk, trainer, ml_clock, ml_readings, ml_saved, ml_resp>>
agVars == <<ag_events, ag_recs, ag_workers, ag_ret, ag_resp>>
preVars == <<pre_in, pre_out>>
simVars == <<sim_now, sim_scenarios, sim_reading>>
vars == <<detVars, confVars, ruleVars, mlVars, agVars, preVars, simVars>>

detOthers == <<confVars, ruleVars, mlVars, agVars, preVars, simVars>>
confOthers == <<detVars, ruleVars, mlVars, agVars, preVars, simVars>>
ruleOthers == <<detVars, confVars, mlVars, agVars, preVars, simVars>>
mlOthers == <<detVars, confVars, ruleVars, agVars, preVars, simVars>>
agOthers == <<detVars, confVars, ruleVars, mlVars, preVars, simVars>>
preOthers == <<detVars, confVars, ruleVars, mlVars, agVars, simVars>>
simOthers == <<detVars, confVars, ruleVars, mlVars, agVars, preVars>>

----------------------------------------------------------------------------
(* Bounds of the model. *)
MaxRows == 11
MaxClock == 2
MaxDataRows == 2

(* Program constants. *)
One == 10000
ConfDivisor == 5000
DefaultMinConfidence == 9990
MinTrainSamples == 10
CriticalCut == -4000
HighCut == -3000
MediumCut == -2000

Abs(x) == IF x < 0 THEN -x ELSE x
Min(a, b) == IF a < b THEN a ELSE b

(* Scorer answers used as inputs: the cut points of the severity tiers and *)
(* of the confidence gate, each with its neighbours.                       *)
Scores == {-6000, -4995, -4994, -4001, -4000, -3001, -3000, -2001, -2000,
           -1000, 0, 2500, 6000}
Preds == {1, -1}
Rows == [pred : Preds, score : Scores]
MinConfidences == {DefaultMinConfidence, 5000, 0}

SeqsUpTo(S, n) == UNION {[1..k -> S] : k \in 1..n}

----------------------------------------------------------------------------
(* IsolationForestDetector *)

NoDate == 0
NoFile == [kind |-> "absent"]

NewDetector == [is_trained |-> FALSE, training_data_size |-> 0,
                training_date |-> NoDate, model |-> 0]

Raise(e, self) == [outcome |-> e, result |-> <<>>, self |-> self]
Return(v, self) == [outcome |-> "ok", result |-> <<v>>, self |-> self]

train_off_by_one(self, n_rows, now) ==
    IF n_rows <= MinTrainSamples
    THEN Raise("ValueError", self)
    ELSE Return([trained |-> TRUE, n_samples |-> n_rows, training_date |-> now],
                [is_trained |-> TRUE, training_data_size |-> n_rows,
                 training_date |-> now, model |-> now])

(* train: normal_data is represented by its number of rows; the fitted     *)
(* scorer by the time of the fit.                                          *)
train(self, n_rows, now) ==
    IF n_rows < MinTrainSamples
    THEN Raise("ValueError", self)
    ELSE Return([trained |-> TRUE, n_samples |-> n_rows, training_date |-> now],
                [is_trained |-> TRUE, training_data_size |-> n_rows,
                 training_date |-> now, model |-> now])

predict_unguarded(self, data) ==
    Return([i \in 1..Len(data) |-> data[i].pred], self)

predict(self, data) ==
    IF ~self.is_trained
    THEN Raise("ValueError", self)
    ELSE Return([i \in 1..Len(data) |-> data[i].pred], self)

get_anomaly_scores(self, data) ==
    IF ~self.is_trained
    THEN Raise("ValueError", self)
    ELSE Return([i \in 1..Len(data) |-> data[i].score], self)

calculate_severity_inclusive(score, is_anomaly) ==
    IF ~is_anomaly THEN "NORMAL"
    ELSE IF score <= CriticalCut THEN "CRITICAL"
    ELSE IF score <= HighCut THEN "HIGH"
    ELSE IF score <= MediumCut THEN "MEDIUM"
    ELSE "LOW"

calculate_severity(score, is_anomaly) ==
    IF ~is_anomaly THEN "NORMAL"
    ELSE IF score < CriticalCut THEN "CRITICAL"
    ELSE IF score < HighCut THEN "HIGH"
    ELSE IF score < MediumCut THEN "MEDIUM"
    ELSE "LOW"

row_confidence_full(pred, score) ==
    IF pred = -1 THEN One ELSE 0

(* lines 118-123: the confidence of one row *)
row_confidence(pred, score) ==
    IF pred = -1
    THEN Min(One, (Abs(score) * One) \div ConfDivisor)
    ELSE IF score > 0 THEN Min(One, (score * One) \div ConfDivisor) ELSE 0

row_is_anomaly_label_only(pred, confidence, min_confidence) ==
    pred = -1

(* line 126: the final decision of one row *)
row_is_anomaly(pred, confidence, min_confidence) ==
    pred = -1 /\ confidence >= min_confidence

detect_row(i, pred, score, min_confidence) ==
    LET confidence == row_confidence(pred, score)
        is_anomaly == row_is_anomaly(pred, confidence, min_confidence)
    IN  [index |-> i, is_anomaly |-> is_anomaly, anomaly_score |-> score,
         confidence |-> confidence,
         severity |-> calculate_severity(score, is_anomaly)]

detect_with_confidence(self, data, min_confidence) ==
    IF ~self.is_trained
    THEN Raise("ValueError", self)
    ELSE LET raw_predictions == predict(self, data).result[1]
             scores == get_anomaly_scores(self, data).result[1]
         IN  Return([i \in 1..Len(data) |->
                        detect_row(i - 1, raw_predictions[i], scores[i],
                                   min_confidence)], self)

FileOf(self) ==
    [kind |-> "complete", model |-> self.model, is_trained |-> self.is_trained,
     training_data_size |-> self.training_data_size,
     training_date |-> self.training_date]

(* save_model answers the detector (unchanged) and the file it leaves. *)
save_model(self, file) ==
    IF ~self.is_trained
    THEN [outcome |-> "ValueError", result |-> <<>>, self |-> self, file |-> file]
    ELSE [outcome |-> "ok", result |-> <<"None">>, self |-> self,
          file |-> FileOf(self)]

load_model_keeps_date(self, file) ==
    IF file.kind = "absent" THEN Raise("FileNotFoundError", self)
    ELSE IF file.kind # "complete" THEN Raise("UnpicklingError", self)
    ELSE Return("None",
                [is_trained |-> file.is_trained,
                 training_data_size |-> file.training_data_size,
                 training_date |-> self.training_date, model |-> file.model])

(* load_model: a file that holds no complete pickle makes pickle.load      *)
(* raise before any field is assigned.                                     *)
load_model(self, file) ==
    IF file.kind = "absent" THEN Raise("FileNotFoundError", self)
    ELSE IF file.kind # "complete" THEN Raise("UnpicklingError", self)
    ELSE Return("None",
                [is_trained |-> file.is_trained,
                 training_data_size |-> file.training_data_size,
                 training_date |-> file.training_date, model |-> file.model])

----------------------------------------------------------------------------
(* Unit-level runs of the detector (the calls of ml_module/tests.py). *)

Detectors == {"d1", "d2"}
SmallData == SeqsUpTo({[pred |-> -1, score |-> -6000], [pred |-> 1, score |-> -1000]}, 1)

DetInit ==
    /\ det = [d \in Detectors |-> NewDetector]
    /\ fs = NoFile
    /\ clock = 0
    /\ dlast = [op |-> "init", d |-> "d1", arg |-> 0, outcome |-> "ok",
                result |-> <<>>, before |-> NewDetector, fs_before |-> NoFile]

Called(op, d, arg, r) ==
    /\ det' = [det EXCEPT ![d] = r.self]
    /\ dlast' = [op |-> op, d |-> d, arg |-> arg, outcome |-> r.outcome,
                 result |-> r.result, before |-> det[d], fs_before |-> fs]

DTrain(d, n) ==
    /\ clock < MaxClock
    /\ LET r == train(det[d], n, clock + 1)
       IN  /\ Called("train", d, n, r)
           /\ clock' = IF r.outcome = "ok" THEN clock + 1 ELSE clock
    /\ UNCHANGED <<fs, detOthers>>

DPredict(d, data) ==
    /\ Called("predict", d, data, predict(det[d], data))
    /\ UNCHANGED <<fs, clock, detOthers>>

DScores(d, data) ==
    /\ Called("get_anomaly_scores", d, data, get_anomaly_scores(det[d], data))
    /\ UNCHANGED <<fs, clock, detOthers>>

DDetect(d, data, mc) ==
    /\ Called("detect_with_confidence", d, data,
              detect_with_confidence(det[d], data, mc))
    /\ UNCHANGED <<fs, clock, detOthers>>

DSave(d) ==
    /\ LET r == save_model(det[d], fs)
       IN  /\ Called("save_model", d, 0, r)
           /\ fs' = r.file
    /\ UNCHANGED <<clock, detOthers>>

DLoad(d) ==
    /\ Called("load_model", d, 0, load_model(det[d], fs))
    /\ UNCHANGED <<fs, clock, detOthers>>

ConfIdle ==
    /\ conf_in = <<>>
    /\ conf_out = <<>>
    /\ conf_events = <<>>

RuleIdle ==
    /\ rule_in = <<>>
    /\ rule_out = <<>>

MLIdle ==
    /\ disk = <<>>
    /\ trainer = <<>>
    /\ ml_clock = 0
    /\ ml_readings = <<>>
    /\ ml_saved = {}
    /\ ml_resp = <<>>

AgIdle ==
    /\ ag_events = {}
    /\ ag_recs = {}
    /\ ag_workers = <<>>
    /\ ag_ret = <<>>
    /\ ag_resp = <<>>

PreIdle ==
    /\ pre_in = <<>>
    /\ pre_out = <<>>

SimIdle ==
    /\ sim_now = 0
    /\ sim_scenarios = <<>>
    /\ sim_reading = <<>>

InitDetector ==
    /\ DetInit
    /\ ConfIdle
    /\ RuleIdle
    /\ MLIdle
    /\ AgIdle
    /\ PreIdle
    /\ SimIdle

NextDetector ==
    \/ \E d \in Detectors, n \in 0..MaxRows : DTrain(d, n)
    \/ \E d \in Detectors, data \in SmallData : DPredict(d, data)
    \/ \E d \in Detectors, data \in SmallData : DScores(d, data)
    \/ \E d \in Detectors, data \in SmallData : DDetect(d, data, DefaultMinConfidence)
    \/ \E d \in Detectors : DSave(d)
    \/ \E d \in Detectors : DLoad(d)

SpecDetector == InitDetector /\ [][NextDetector]_vars

----------------------------------------------------------------------------
(* detect_with_confidence as a function of (data, min_confidence), on a    *)
(* trained detector.                                                       *)

TrainedDetector == [is_trained |-> TRUE, training_data_size |-> MinTrainSamples,
                    training_date |-> 1, model |-> 1]

DetIdle ==
    /\ det = [d \in Detectors |-> NewDetector]
    /\ fs = NoFile
    /\ clock = 0
    /\ dlast = <<>>

InitConf ==
    /\ conf_in \in [data : SeqsUpTo(Rows, MaxDataRows), min_confidence : MinConfidences]
    /\ conf_out = <<>>
    /\ conf_events = <<>>
    /\ DetIdle
    /\ RuleIdle
    /\ MLIdle
    /\ AgIdle
    /\ PreIdle
    /\ SimIdle

ConfDetect ==
    /\ conf_out = <<>>
    /\ conf_out' = detect_with_confidence(TrainedDetector, conf_in.data,
                                          conf_in.min_confidence).result[1]
    /\ UNCHANGED <<conf_in, conf_events, confOthers>>

----------------------------------------------------------------------------
(* Claims about the detector. *)

ScoringOps == {"predict", "get_anomaly_scores", "detect_with_confidence", "save_model"}

\* C4: on a detector that is not trained, predict, get_anomaly_scores,
\* detect_with_confidence and save_model fail with the not-trained error
\* (ValueError), return nothing, write no file and leave the detector as it
\* was; a detector that is not trained still has its initial fields.
C4_UntrainedCallsFail ==
    /\ (dlast.op \in ScoringOps /\ ~dlast.before.is_trained) =>
          /\ dlast.outcome = "ValueError"
          /\ dlast.result = <<>>
          /\ fs = dlast.fs_before
          /\ det[dlast.d] = dlast.before
    /\ \A d \in Detectors : ~det[d].is_trained => det[d] = NewDetector

C4_Witness ==
    /\ dlast.op = "detect_with_confidence"
    /\ ~dlast.before.is_trained
    /\ dlast.outcome = "ValueError"
    /\ fs.kind = "complete"

\* C5: train fails with ValueError for fewer than 10 rows and leaves the
\* detector as it was; with 10 rows or more it succeeds, the detector is
\* trained and training_data_size is the number of rows.
C5_TrainThreshold ==
    dlast.op = "train" =>
        IF dlast.arg < 10
        THEN /\ dlast.outcome = "ValueError"
             /\ det[dlast.d] = dlast.before
        ELSE /\ dlast.outcome = "ok"
             /\ det[dlast.d].is_trained
             /\ det[dlast.d].training_data_size = dlast.arg
             /\ det[dlast.d].training_date # NoDate

C5_Witness ==
    /\ dlast.op = "train"
    /\ dlast.arg = 10
    /\ dlast.outcome = "ok"
    /\ det[dlast.d].training_data_size = 10

\* C6: for every row, confidence = min(1, |score|/0.5) when the label is
\* anomaly, else min(1, score/0.5) if score > 0 else 0; it lies in [0,1];
\* and is_anomaly holds iff the label is anomaly and confidence >= min_confidence.
C6_TwoStageGate ==
    conf_out # <<>> =>
        /\ Len(conf_out) = Len(conf_in.data)
        /\ \A i \in 1..Len(conf_out) :
             LET row == conf_in.data[i]
                 r == conf_out[i]
                 expected == IF row.pred = -1 THEN Min(10000, 2 * Abs(row.score))
                             ELSE IF row.score > 0 THEN Min(10000, 2 * row.score)
                             ELSE 0
             IN  /\ r.confidence = expected
                 /\ r.confidence >= 0 /\ r.confidence <= 10000
                 /\ r.is_anomaly <=>
                      (row.pred = -1 /\ r.confidence >= conf_in.min_confidence)

C6_Witness ==
    /\ conf_out # <<>>
    /\ conf_in.min_confidence = DefaultMinConfidence
    /\ \E i \in 1..Len(conf_out) :
         conf_in.data[i].pred = -1 /\ ~conf_out[i].is_anomaly
    /\ \E i \in 1..Len(conf_out) : conf_out[i].is_anomaly

\* C7: the severity of a row depends on (score, final is_anomaly) only:
\* NORMAL when not finally anomalous, else CRITICAL below -0.4, HIGH in
\* [-0.4, -0.3), MEDIUM in [-0.3, -0.2), LOW otherwise.
C7_SeverityTiers ==
    conf_out # <<>> =>
        \A i \in 1..Len(conf_out) :
            LET r == conf_out[i]
                s == r.anomaly_score
            IN  /\ r.anomaly_score = conf_in.data[i].score
                /\ r.severity \in {"NORMAL", "LOW", "MEDIUM", "HIGH", "CRITICAL"}
                /\ (~r.is_anomaly) => r.severity = "NORMAL"
                /\ (r.is_anomaly /\ s < -4000) => r.severity = "CRITICAL"
                /\ (r.is_anomaly /\ -4000 <= s /\ s < -3000) => r.severity = "HIGH"
                /\ (r.is_anomaly /\ -3000 <= s /\ s < -2000) => r.severity = "MEDIUM"
                /\ (r.is_anomaly /\ -2000 <= s) => r.severity = "LOW"

C7_Witness ==
    /\ conf_out # <<>>
    /\ \E i \in 1..Len(conf_out) :
         conf_out[i].severity = "NORMAL" /\ conf_out[i].anomaly_score < CriticalCut
    /\ \E i \in 1..Len(conf_out) :
         conf_out[i].severity = "HIGH" /\ conf_out[i].anomaly_score = CriticalCut

----------------------------------------------------------------------------
(* The store the rule engine reads (crop_app models, through the ORM).     *)
(*                                                                         *)
(*   SensorReading  [id, plot, sensor_type, value, timestamp]              *)
(*   AnomalyEvent   [id, plot, sensor_reading, anomaly_type, severity,     *)
(*                   model_confidence, timestamp]                          *)
(*                                                                         *)
(* Sensor values are in units of 0.01, change rates in units of 0.01 %,    *)
(* confidences in units of 1/10000, timestamps in hours.  A nullable       *)
(* value is None (the empty tuple) or Some(v).  Names of anomaly types are *)
(* sequences of characters, so that lower() and the substring test are     *)
(* computed.                                                               *)

None == <<>>
Some(v) == <<v>>
IsNone(x) == x = <<>>
Truthy(x) == x # <<>> /\ x[1] # 0

(* round(n / d) to the nearest integer, ties to even, d > 0 *)
RoundDiv(n, d) ==
    LET q == n \div d
        r == n - q * d
    IN  IF 2 * r < d THEN q
        ELSE IF 2 * r > d THEN q + 1
        ELSE IF q % 2 = 0 THEN q ELSE q + 1

(* f"{x:.1f}" of a number in units of 0.01: the number of tenths *)
Fmt1(x) == RoundDiv(x, 10)
(* f"{c:.2f}" of a confidence: the number of hundredths *)
Fmt2(c) == RoundDiv(c, 100)
(* round(c, 2) of a confidence *)
Round2(c) == RoundDiv(c, 100) * 100

Lower(ch) ==
    CASE ch = "A" -> "a" [] ch = "B" -> "b" [] ch = "C" -> "c" [] ch = "D" -> "d"
      [] ch = "E" -> "e" [] ch = "F" -> "f" [] ch = "G" -> "g" [] ch = "H" -> "h"
      [] ch = "I" -> "i" [] ch = "J" -> "j" [] ch = "K" -> "k" [] ch = "L" -> "l"
      [] ch = "M" -> "m" [] ch = "N" -> "n" [] ch = "O" -> "o" [] ch = "P" -> "p"
      [] ch = "Q" -> "q" [] ch = "R" -> "r" [] ch = "S" -> "s" [] ch = "T" -> "t"
      [] ch = "U" -> "u" [] ch = "V" -> "v" [] ch = "W" -> "w" [] ch = "X" -> "x"
      [] ch = "Y" -> "y" [] ch = "Z" -> "z" [] OTHER -> ch

lower(str) == [i \in 1..Len(str) |-> Lower(str[i])]

(* sub in str *)
Contains(sub, str) ==
    \E k \in 0..(Len(str) - Len(sub)) :
        \A i \in 1..Len(sub) : str[k + i] = sub[i]

Chars(name) ==
    CASE name = "moisture" -> <<"m", "o", "i", "s", "t", "u", "r", "e">>
      [] name = "temperature" -> <<"t", "e", "m", "p", "e", "r", "a", "t", "u", "r", "e">>
      [] name = "humidity" -> <<"h", "u", "m", "i", "d", "i", "t", "y">>
      [] name = "_anomaly" -> <<"_", "a", "n", "o", "m", "a", "l", "y">>

SensorTypes == {"moisture", "temperature", "humidity"}

(* f'{sensor_type}_anomaly' *)
AnomalyTypeOf(sensor_type) == Chars(sensor_type) \o Chars("_anomaly")

normal_ranges ==
    [moisture |-> [min |-> 4500, max |-> 7500],
     temperature |-> [min |-> 1800, max |-> 2800],
     humidity |-> [min |-> 4500, max |-> 7500]]

critical_thresholds ==
    [moisture |-> [critical_low |-> 3500, critical_high |-> 8000],
     temperature |-> [critical_low |-> 1000, critical_high |-> 3200],
     humidity |-> [critical_low |-> 3000, critical_high |-> 8500]]

ContextWindowHours == 3
ContextReadings == 10

RECURSIVE SortDesc(_)
(* order_by('-timestamp') of a set of rows with distinct timestamps *)
SortDesc(S) ==
    IF S = {} THEN <<>>
    ELSE LET m == CHOOSE r \in S : \A q \in S : q.timestamp <= r.timestamp
         IN  <<m>> \o SortDesc(S \ {m})

Take(seq, n) == SubSeq(seq, 1, Min(n, Len(seq)))

RECURSIVE Sum(_)
Sum(seq) == IF seq = <<>> THEN 0 ELSE Head(seq) + Sum(Tail(seq))

(* _calculate_change_rate: values[1] is the most recent, the last the oldest *)
calculate_change_rate(values) ==
    IF Len(values) < 2 THEN 0
    ELSE IF values[Len(values)] # 0
         THEN RoundDiv((values[1] - values[Len(values)]) * 10000, values[Len(values)])
         ELSE 0

determine_trend_oldest_first(values) ==
    IF Len(values) < 3 THEN "unknown"
    ELSE LET increases == Cardinality({i \in 1..(Len(values) - 1) : values[i] < values[i + 1]})
             decreases == Cardinality({i \in 1..(Len(values) - 1) : values[i] > values[i + 1]})
             total == Len(values) - 1
         IN  IF increases * 10 > total * 7 THEN "increasing"
             ELSE IF decreases * 10 > total * 7 THEN "decreasing"
             ELSE "fluctuating"

(* _determine_trend: more than 70% of the adjacent pairs *)
determine_trend(values) ==
    IF Len(values) < 3 THEN "unknown"
    ELSE LET increases == Cardinality({i \in 1..(Len(values) - 1) : values[i] > values[i + 1]})
             decreases == Cardinality({i \in 1..(Len(values) - 1) : values[i] < values[i + 1]})
             total == Len(values) - 1
         IN  IF increases * 10 > total * 7 THEN "increasing"
             ELSE IF decreases * 10 > total * 7 THEN "decreasing"
             ELSE "fluctuating"

DefaultContext ==
    [recent_value |-> None, change_rate |-> None, trend |-> "unknown",
     multiple_anomalies |-> FALSE, sensor_type |-> None,
     historical_avg |-> None, time_of_day |-> None]

ReadingOf(anomaly_event, readings) ==
    CHOOSE r \in readings : r.id = anomaly_event.sensor_reading

context_readings_inclusive(anomaly_event, reading, readings) ==
    Take(SortDesc({r \in readings :
                    /\ r.plot = anomaly_event.plot
                    /\ r.sensor_type = reading.sensor_type
                    /\ r.timestamp <= reading.timestamp
                    /\ r.id # reading.id}),
         ContextReadings)

(* recent_readings of _get_reading_context: plot, sensor_type, timestamp__lt, order_by('-timestamp')[:10] *)
context_readings(anomaly_event, reading, readings) ==
    Take(SortDesc({r \in readings :
                    /\ r.plot = anomaly_event.plot
                    /\ r.sensor_type = reading.sensor_type
                    /\ r.timestamp < reading.timestamp}),
         ContextReadings)

(* values = [sensor_reading.value] + [r.value for r in recent_readings] *)
context_values(reading, recent) ==
    <<reading.value>> \o [i \in 1..Len(recent) |-> recent[i].value]

(* recent_anomalies: plot, timestamp__gte = anomaly timestamp - 3 hours, count() *)
recent_anomalies(anomaly_event, anomalies) ==
    Cardinality({a \in anomalies :
                   /\ a.plot = anomaly_event.plot
                   /\ a.timestamp >= anomaly_event.timestamp - ContextWindowHours})

(* _get_reading_context.  sensor_reading = 0 stands for a null reference. *)
get_reading_context(anomaly_event, readings, anomalies) ==
    LET has_reading == anomaly_event.sensor_reading # 0
        reading == ReadingOf(anomaly_event, readings)
        values == context_values(reading, context_readings(anomaly_event, reading, readings))
        enough == has_reading /\ Len(values) >= 3
    IN  [recent_value |-> IF has_reading THEN Some(reading.value) ELSE None,
         sensor_type |-> IF has_reading THEN Some(reading.sensor_type) ELSE None,
         time_of_day |-> IF has_reading THEN Some(anomaly_event.timestamp % 24) ELSE None,
         change_rate |-> IF enough THEN Some(calculate_change_rate(values)) ELSE None,
         trend |-> IF enough THEN determine_trend(values) ELSE "unknown",
         historical_avg |-> IF enough
                            THEN Some(RoundDiv(Sum(values), Len(values) * 10) * 10)
                            ELSE None,
         multiple_anomalies |-> recent_anomalies(anomaly_event, anomalies) > 2]

calculate_confidence_uncapped(model_confidence, change_rate) ==
    Round2(IF Abs(change_rate) > 2000 THEN model_confidence + 2000
           ELSE IF Abs(change_rate) > 1500 THEN model_confidence + 1500
           ELSE IF Abs(change_rate) > 1000 THEN model_confidence + 1000
           ELSE model_confidence)

(* _calculate_confidence; change_rate in units of 0.01 % *)
calculate_confidence(model_confidence, change_rate) ==
    Round2(IF Abs(change_rate) > 2000 THEN Min(model_confidence + 2000, One)
           ELSE IF Abs(change_rate) > 1500 THEN Min(model_confidence + 1500, One)
           ELSE IF Abs(change_rate) > 1000 THEN Min(model_confidence + 1000, One)
           ELSE model_confidence)

(* _build_explanation: the sentence is kept as its parts, in order *)
build_explanation(anomaly, context, detail) ==
    [timestamp_str |-> anomaly.timestamp,
     sensor_type |-> context.sensor_type,
     anomaly_type |-> anomaly.anomaly_type,
     model_confidence |-> Fmt2(anomaly.model_confidence),
     severity |-> anomaly.severity,
     detail |-> detail,
     trend |-> IF context.trend # "unknown" THEN Some(context.trend) ELSE None,
     change_rate |-> IF Truthy(context.change_rate) /\ Abs(context.change_rate[1]) > 500
                     THEN Some(Fmt1(context.change_rate[1])) ELSE None,
     multiple_anomalies |-> context.multiple_anomalies]

Analysis(action, explanation, confidence, priority) ==
    [outcome |-> "ok",
     result |-> <<[recommended_action |-> action, explanation_text |-> explanation,
                   confidence |-> confidence, priority |-> priority]>>]

TypeError == [outcome |-> "TypeError", result |-> <<>>]

(* _analyze_moisture_anomaly.  context.get('change_rate', 0) answers None  *)
(* when the context holds no change rate (the key is always present), and  *)
(* Python raises TypeError on None < -10.                                  *)
analyze_moisture_anomaly(anomaly, context) ==
    LET recent_value == context.recent_value
        change_rate == context.change_rate
        trend == context.trend
        severity == anomaly.severity
        mc == anomaly.model_confidence
        th == critical_thresholds.moisture
    IN  IF IsNone(recent_value)
        THEN Analysis("Investigate moisture sensor - no recent data available",
                      build_explanation(anomaly, context, <<"moisture data unavailable">>),
                      (mc * 5) \div 10, "medium")
        ELSE IF recent_value[1] < th.critical_low
        THEN Analysis("URGENT: Immediate irrigation required - crops under severe drought stress",
                      build_explanation(anomaly, context,
                          <<"moisture critically low", Fmt1(recent_value[1])>>),
                      Min(mc + 1500, One), "high")
        ELSE IF IsNone(change_rate) THEN TypeError
        ELSE IF change_rate[1] < -1000
        THEN Analysis("Check irrigation system immediately - possible failure or leak detected",
                      build_explanation(anomaly, context,
                          <<"moisture dropped", Fmt1(Abs(change_rate[1])), Fmt1(recent_value[1])>>),
                      calculate_confidence(mc, change_rate[1]),
                      IF severity = "high" THEN "high" ELSE "medium")
        ELSE IF trend = "decreasing" /\ change_rate[1] < -500
        THEN Analysis("Adjust irrigation schedule - gradual moisture loss detected",
                      build_explanation(anomaly, context,
                          <<"moisture gradual decline", Fmt1(change_rate[1]), Fmt1(recent_value[1])>>),
                      mc, "medium")
        ELSE IF recent_value[1] > th.critical_high
        THEN Analysis("Reduce irrigation immediately - overwatering detected",
                      build_explanation(anomaly, context,
                          <<"moisture excessive", Fmt1(recent_value[1])>>),
                      mc, "medium")
        ELSE IF severity = "medium"
        THEN Analysis("Monitor moisture levels closely and prepare irrigation adjustments",
                      build_explanation(anomaly, context,
                          <<"moisture medium severity", Fmt1(recent_value[1])>>),
                      mc, "medium")
        ELSE Analysis("Monitor soil moisture levels",
                      build_explanation(anomaly, context,
                          <<"moisture anomaly", Fmt1(recent_value[1])>>),
                      (mc * 8) \div 10, "low")

(* _analyze_temperature_anomaly *)
analyze_temperature_anomaly(anomaly, context) ==
    LET recent_value == context.recent_value
        change_rate == context.change_rate
        severity == anomaly.severity
        mc == anomaly.model_confidence
        th == critical_thresholds.temperature
    IN  IF IsNone(recent_value)
        THEN Analysis("Investigate temperature sensor - no recent data available",
                      build_explanation(anomaly, context, <<"temperature data unavailable">>),
                      (mc * 5) \div 10, "medium")
        ELSE IF recent_value[1] > th.critical_high
        THEN Analysis("URGENT: Heat stress mitigation - increase irrigation immediately and provide shade",
                      build_explanation(anomaly, context,
                          <<"extreme temperature", Fmt1(recent_value[1]),
                            IF Truthy(context.historical_avg)
                            THEN <<Fmt1(recent_value[1] - context.historical_avg[1]),
                                   Fmt1(context.historical_avg[1])>>
                            ELSE <<>>,
                            context.trend = "increasing">>),
                      Min(mc + 1500, One), "high")
        ELSE IF recent_value[1] # 0 /\ recent_value[1] < th.critical_low
        THEN Analysis("URGENT: Cold protection required - risk of frost damage",
                      build_explanation(anomaly, context,
                          <<"low temperature", Fmt1(recent_value[1])>>),
                      Min(mc + 1500, One), "high")
        ELSE IF IsNone(change_rate) THEN TypeError
        ELSE IF change_rate[1] > 1500
        THEN Analysis("Monitor crops closely - sudden temperature increase detected",
                      build_explanation(anomaly, context,
                          <<"temperature increase", Fmt1(change_rate[1]), Fmt1(recent_value[1])>>),
                      mc, IF severity = "high" THEN "high" ELSE "medium")
        ELSE IF change_rate[1] < -1500
        THEN Analysis("Monitor for cold stress - sudden temperature drop detected",
                      build_explanation(anomaly, context,
                          <<"temperature decrease", Fmt1(Abs(change_rate[1])), Fmt1(recent_value[1])>>),
                      mc, "medium")
        ELSE IF severity = "medium"
        THEN Analysis("Monitor temperature trends and crop response",
                      build_explanation(anomaly, context,
                          <<"temperature medium severity", Fmt1(recent_value[1])>>),
                      mc, "medium")
        ELSE Analysis("Monitor temperature levels",
                      build_explanation(anomaly, context,
                          <<"temperature anomaly", Fmt1(recent_value[1])>>),
                      (mc * 8) \div 10, "low")

(* _analyze_humidity_anomaly.  Formatting a missing value with :.1f raises *)
(* TypeError.                                                              *)
analyze_humidity_anomaly(anomaly, context) ==
    LET recent_value == context.recent_value
        severity == anomaly.severity
        mc == anomaly.model_confidence
        th == critical_thresholds.humidity
    IN  IF Truthy(recent_value) /\ recent_value[1] < th.critical_low
        THEN Analysis("Increase humidity or irrigation - risk of plant stress from dry air",
                      build_explanation(anomaly, context,
                          <<"very low humidity", Fmt1(recent_value[1])>>),
                      mc, IF severity = "high" THEN "high" ELSE "medium")
        ELSE IF Truthy(recent_value) /\ recent_value[1] > th.critical_high
        THEN Analysis("Improve ventilation urgently - high humidity increases disease risk",
                      build_explanation(anomaly, context,
                          <<"high humidity", Fmt1(recent_value[1])>>),
                      mc, IF severity = "high" THEN "high" ELSE "medium")
        ELSE IF IsNone(recent_value) THEN TypeError
        ELSE IF severity = "medium"
        THEN Analysis("Monitor humidity levels and ventilation",
                      build_explanation(anomaly, context,
                          <<"humidity medium severity", Fmt1(recent_value[1])>>),
                      mc, "medium")
        ELSE Analysis("Monitor humidity levels",
                      build_explanation(anomaly, context,
                          <<"humidity anomaly", Fmt1(recent_value[1])>>),
                      (mc * 8) \div 10, "low")

(* _analyze_generic_anomaly *)
analyze_generic_anomaly(anomaly, context) ==
    LET severity == anomaly.severity
        mc == anomaly.model_confidence
    IN  IF context.multiple_anomalies
        THEN Analysis("URGENT: Comprehensive plot inspection - multiple stress factors detected",
                      build_explanation(anomaly, context, <<"multiple anomalies">>),
                      (mc * 9) \div 10, "high")
        ELSE IF mc < 6000
        THEN Analysis("Verify with manual inspection - anomaly detected with moderate confidence",
                      build_explanation(anomaly, context, <<"moderate confidence", Fmt2(mc)>>),
                      mc, "low")
        ELSE IF severity = "high"
        THEN Analysis("Investigate anomaly urgently - high severity detected",
                      build_explanation(anomaly, context, <<"high severity">>),
                      mc, "high")
        ELSE Analysis("Investigate anomaly condition",
                      build_explanation(anomaly, context, <<"anomaly detected">>),
                      mc, IF severity = "medium" THEN "medium" ELSE "low")

moisture_drop_rule_first(anomaly, context) ==
    IF ~IsNone(context.recent_value) /\ ~IsNone(context.change_rate)
       /\ context.change_rate[1] < -1000
    THEN Analysis("Check irrigation system immediately - possible failure or leak detected",
                  build_explanation(anomaly, context,
                      <<"moisture dropped", Fmt1(Abs(context.change_rate[1])),
                        Fmt1(context.recent_value[1])>>),
                  calculate_confidence(anomaly.model_confidence, context.change_rate[1]),
                  IF anomaly.severity = "high" THEN "high" ELSE "medium")
    ELSE analyze_moisture_anomaly(anomaly, context)

(* the moisture branch of analyze_anomaly *)
moisture_rules(anomaly, context) == analyze_moisture_anomaly(anomaly, context)

analyze_with_context_temperature_first(anomaly_event, context) ==
    IF Contains(Chars("temperature"), lower(anomaly_event.anomaly_type))
    THEN analyze_temperature_anomaly(anomaly_event, context)
    ELSE IF Contains(Chars("moisture"), lower(anomaly_event.anomaly_type))
    THEN moisture_rules(anomaly_event, context)
    ELSE IF Contains(Chars("humidity"), lower(anomaly_event.anomaly_type))
    THEN analyze_humidity_anomaly(anomaly_event, context)
    ELSE analyze_generic_anomaly(anomaly_event, context)

(* analyze_anomaly on a given context: the dispatch of lines 55-63 *)
analyze_with_context(anomaly_event, context) ==
    IF Contains(Chars("moisture"), lower(anomaly_event.anomaly_type))
    THEN moisture_rules(anomaly_event, context)
    ELSE IF Contains(Chars("temperature"), lower(anomaly_event.anomaly_type))
    THEN analyze_temperature_anomaly(anomaly_event, context)
    ELSE IF Contains(Chars("humidity"), lower(anomaly_event.anomaly_type))
    THEN analyze_humidity_anomaly(anomaly_event, context)
    ELSE analyze_generic_anomaly(anomaly_event, context)

(* analyze_anomaly *)
analyze_anomaly(anomaly_event, readings, anomalies) ==
    analyze_with_context(anomaly_event,
                         get_reading_context(anomaly_event, readings, anomalies))

----------------------------------------------------------------------------
(* analyze_anomaly as a function of the anomaly and the store.             *)
(* The store holds the stream of the triggering reading (prior readings at *)
(* timestamps 1..k, the triggering reading at k+1), a later reading of the *)
(* same stream, a reading of another plot and one of another sensor, and   *)
(* the anomaly with a number of other anomalies of its plot.               *)

MaxPrior == 3
MaxOtherAnomalies == 2

Severities == {"low", "medium", "high"}
Confidences == {0, 5900, 6000, 8560, 9990, 10000}

SensorFault == <<"s", "e", "n", "s", "o", "r", "_", "f", "a", "u", "l", "t">>

TypeCases ==
    {[name |-> AnomalyTypeOf(st), sensor_type |-> st] : st \in SensorTypes}
    \cup {[name |-> SensorFault, sensor_type |-> "moisture"]}

TriggerValues(st) ==
    CASE st = "moisture" -> {0, 3000, 3500, 5000, 8100}
      [] st = "temperature" -> {-500, 0, 900, 2000, 3300}
      [] st = "humidity" -> {0, 2900, 5000, 8600}

PriorValues(st) ==
    CASE st = "moisture" -> {2000, 5000, 5300}
      [] st = "temperature" -> {1500, 2500}
      [] st = "humidity" -> {5000, 6000}

OtherSensor(st) == IF st = "moisture" THEN "humidity" ELSE "moisture"

StreamReadings(st, priors, trigger) ==
    {[id |-> i, plot |-> 1, sensor_type |-> st, value |-> priors[i], timestamp |-> i] :
        i \in 1..Len(priors)}
    \cup {[id |-> Len(priors) + 1, plot |-> 1, sensor_type |-> st,
           value |-> trigger, timestamp |-> Len(priors) + 1],
          [id |-> Len(priors) + 2, plot |-> 1, sensor_type |-> st,
           value |-> 100, timestamp |-> Len(priors) + 2],
          [id |-> Len(priors) + 3, plot |-> 2, sensor_type |-> st,
           value |-> 200, timestamp |-> 0],
          [id |-> Len(priors) + 4, plot |-> 1, sensor_type |-> OtherSensor(st),
           value |-> 300, timestamp |-> 0]}

RuleInput(c, sev, mc, has_reading, trigger, priors, others) ==
    LET t == Len(priors) + 3
        event == [id |-> 1, plot |-> 1,
                  sensor_reading |-> IF has_reading THEN Len(priors) + 1 ELSE 0,
                  anomaly_type |-> c.name, severity |-> sev,
                  model_confidence |-> mc, timestamp |-> t]
    IN  [anomaly_event |-> event,
         readings |-> StreamReadings(c.sensor_type, priors, trigger),
         anomalies |-> {event} \cup
                       {[event EXCEPT !.id = 1 + j, !.timestamp = t - 1] : j \in 1..others}]

InitRules ==
    /\ \E c \in TypeCases, sev \in Severities, mc \in Confidences,
          others \in 0..MaxOtherAnomalies, has_reading \in BOOLEAN :
         \E trigger \in TriggerValues(c.sensor_type),
            priors \in {<<>>} \cup SeqsUpTo(PriorValues(c.sensor_type), MaxPrior) :
            /\ has_reading \/ (priors = <<>> /\ trigger = 0)
            /\ rule_in = <<RuleInput(c, sev, mc, has_reading, trigger, priors, others)>>
    /\ rule_out = <<>>
    /\ DetIdle
    /\ ConfIdle
    /\ MLIdle
    /\ AgIdle
    /\ PreIdle
    /\ SimIdle

MaxRuns == 2

engine_run_remembering(n, anomaly_event, readings, anomalies) ==
    analyze_anomaly(anomaly_event, readings,
                    anomalies \cup {[anomaly_event EXCEPT !.id = -k] : k \in 1..(3 * (n - 1))})

(* the n-th call of analyze_anomaly on the one engine of the service: the  *)
(* engine holds its two threshold tables and no method assigns to self, so *)
(* the answer does not depend on n                                         *)
engine_run(n, anomaly_event, readings, anomalies) ==
    analyze_anomaly(anomaly_event, readings, anomalies)

(* one more run of analyze on the same anomaly and the same store *)
RuleAnalyze ==
    /\ Len(rule_out) < MaxRuns
    /\ LET in == rule_in[1]
       IN  rule_out' = Append(rule_out,
                              [context |-> get_reading_context(in.anomaly_event,
                                                               in.readings, in.anomalies),
                               analysis |-> engine_run(Len(rule_out) + 1, in.anomaly_event,
                                                       in.readings, in.anomalies)])
    /\ UNCHANGED <<rule_in, ruleOthers>>

NextRules == RuleAnalyze

SpecRules == InitRules /\ [][NextRules]_vars

(* the reading an anomaly refers to, or None *)
TriggerValueOf(in) ==
    IF in.anomaly_event.sensor_reading = 0 THEN None
    ELSE Some(ReadingOf(in.anomaly_event, in.readings).value)

IsMoistureAnomaly(event) == Contains(Chars("moisture"), lower(event.anomaly_type))

\* C10: for every moisture anomaly whose current value is present and below
\* the critical-low threshold 35, analyze returns the urgent-irrigation action
\* with priority high and confidence min(model_confidence + 0.15, 1),
\* whatever change_rate, trend and severity are.
C10_MoistureCriticalLowFirst ==
    (/\ rule_out # <<>>
     /\ IsMoistureAnomaly(rule_in[1].anomaly_event)
     /\ TriggerValueOf(rule_in[1]) # None
     /\ TriggerValueOf(rule_in[1])[1] < 3500) =>
        /\ rule_out[1].analysis.outcome = "ok"
        /\ LET r == rule_out[1].analysis.result[1]
           IN  /\ r.recommended_action =
                    "URGENT: Immediate irrigation required - crops under severe drought stress"
               /\ r.priority = "high"
               /\ r.confidence = Min(rule_in[1].anomaly_event.model_confidence + 1500, 10000)

C10_Witness ==
    /\ rule_out # <<>>
    /\ IsMoistureAnomaly(rule_in[1].anomaly_event)
    /\ TriggerValueOf(rule_in[1]) = Some(3000)
    /\ rule_out[1].context.change_rate # None
    /\ rule_out[1].context.change_rate[1] < -1000
    /\ rule_out[1].context.trend = "decreasing"
    /\ rule_out[1].analysis.outcome = "ok"
    /\ rule_out[1].analysis.result[1].priority = "high"

----------------------------------------------------------------------------
(* ml_module/preprocessing.py: windows; ml_module/views.py: the model      *)
(* files and the train, detect and batch-detect endpoints.                 *)

MaxReadings == 11
MaxTrainings == 2

WindowSize == 10
ReadingsLimit == 50
MinReadings == 10
TrainDataPoints == 100

create_windows_short(values, window_size) ==
    IF Len(values) <= window_size
    THEN [outcome |-> "ValueError", result |-> <<>>]
    ELSE [outcome |-> "ok",
          result |-> <<[i \in 1..(Len(values) - window_size) |->
                          SubSeq(values, i, i + window_size - 1)]>>]

(* create_windows: window i (from 0) is values[i : i + window_size] *)
create_windows(values, window_size) ==
    IF Len(values) < window_size
    THEN [outcome |-> "ValueError", result |-> <<>>]
    ELSE [outcome |-> "ok",
          result |-> <<[i \in 1..(Len(values) - window_size + 1) |->
                          SubSeq(values, i, i + window_size - 1)]>>]

MinOf(window) == CHOOSE v \in {window[i] : i \in DOMAIN window} :
                     \A i \in DOMAIN window : v <= window[i]
MaxOf(window) == CHOOSE v \in {window[i] : i \in DOMAIN window} :
                     \A i \in DOMAIN window : v >= window[i]

(* calculate_features: mean, std, min, max, range of a window. The values  *)
(* are integers here, so the mean is kept as the sum over n values and the *)
(* (population) std by its square times n * n, which are exact; the square *)
(* is computed on the distances from the minimum, which gives the same     *)
(* number.                                                                 *)
calculate_features(window) ==
    LET n == Len(window)
        lo == MinOf(window)
        hi == MaxOf(window)
        d == [i \in 1..n |-> window[i] - lo]
        total == Sum(d)
    IN  [sum |-> n * lo + total, n |-> n,
         var_n2 |-> n * Sum([i \in 1..n |-> d[i] * d[i]]) - total * total,
         min |-> lo, max |-> hi, range |-> hi - lo]

prepare_without_check(values, window_size, use_features) ==
    LET n_windows == IF Len(values) < window_size THEN 0
                     ELSE Len(values) - window_size + 1
        windows == [i \in 1..n_windows |-> SubSeq(values, i, i + window_size - 1)]
    IN  [outcome |-> "ok",
         result |-> <<IF use_features
                      THEN [i \in 1..n_windows |-> calculate_features(windows[i])]
                      ELSE windows>>]

(* prepare_for_model: the windows, or one feature vector per window, in *)
(* the order of the windows                                             *)
prepare_for_model(values, window_size, use_features) ==
    LET windows == create_windows(values, window_size)
    IN  IF windows.outcome # "ok" THEN windows
        ELSE IF use_features
        THEN [outcome |-> "ok",
              result |-> <<[i \in 1..Len(windows.result[1]) |->
                              calculate_features(windows.result[1][i])]>>]
        ELSE windows

(* the FieldPlot table: its ids in the order of the query, and as a set *)
FieldPlotIds == <<1>>
FieldPlots == {FieldPlotIds[i] : i \in 1..Len(FieldPlotIds)}

(* SensorReading rows of one (plot, sensor type): the k-th row inserted has *)
(* timestamp k and a value of its own.                                      *)
Reading(plot, sensor_type, k) ==
    [plot |-> plot, sensor_type |-> sensor_type, timestamp |-> k,
     value |-> 5000 + 10 * k]

SensorReadings ==
    UNION {{Reading(key[1], key[2], k) : k \in 1..ml_readings[key]} :
           key \in DOMAIN ml_readings}

ValuesOf(readings) == [i \in 1..Len(readings) |-> readings[i].value]

Reversed(seq) == [i \in 1..Len(seq) |-> seq[Len(seq) + 1 - i]]

get_recent_readings_all_plots(sensor_type, count) ==
    LET readings == Take(SortDesc({r \in SensorReadings :
                                      r.sensor_type = sensor_type}), count)
    IN  ValuesOf(Reversed(readings))

(* filter(plot, sensor_type).order_by('-timestamp')[:50]: the rows of the *)
(* stream from the last inserted, which has the greatest timestamp, down  *)
recent_readings(plot, sensor_type) ==
    LET n == ml_readings[<<plot, sensor_type>>]
    IN  Take([i \in 1..n |-> Reading(plot, sensor_type, n + 1 - i)], ReadingsLimit)

(* open(filepath, 'wb'): the file exists and is empty until the dump ends *)
open_wb(file) == [kind |-> "partial"]

load_detector_assumed_trained(sensor_type) == TrainedDetector

(* load_detector_from_disk: the file's detector, or a new untrained one    *)
(* when there is no file or load_model raises                              *)
load_detector_from_disk(sensor_type) ==
    IF disk[sensor_type].kind # "absent"
    THEN LET r == load_model(NewDetector, disk[sensor_type])
         IN  IF r.outcome = "ok" THEN r.self ELSE NewDetector
    ELSE NewDetector

(* severity_map.get(anomaly['severity'], 'medium') *)
severity_map_get(severity) ==
    CASE severity = "NORMAL" -> "low"
      [] severity = "MINOR" -> "low"
      [] severity = "WARNING" -> "medium"
      [] severity = "CRITICAL" -> "high"
      [] OTHER -> "medium"

window_reading_last(readings_list, window_index) ==
    readings_list[window_index + WindowSize]

(* the reading a flagged window is linked to; readings_list[0] is at 1 *)
window_reading(readings_list, window_index) ==
    IF window_index < Len(readings_list)
    THEN readings_list[window_index + 1]
    ELSE readings_list[1]

IsAnomaly(r) == r.is_anomaly

(* the loop over the flagged windows: one AnomalyEvent row each *)
create_events(plot, sensor_type, anomalies, readings_list) ==
    [k \in 1..Len(anomalies) |->
        [plot |-> plot,
         sensor_reading |-> window_reading(readings_list, anomalies[k].index),
         anomaly_type |-> AnomalyTypeOf(sensor_type),
         severity |-> severity_map_get(anomalies[k].severity),
         model_confidence |-> anomalies[k].confidence]]

(* the scorer's answers for the rows of processed_data *)
Scored(processed_data, answers) == [i \in 1..Len(processed_data) |-> answers[i]]

(* one detection over the latest readings of (plot, sensor_type), as both  *)
(* endpoints do it: what is fed, what is found, the rows inserted          *)
run_detection(detector, plot, sensor_type, readings_list, answers) ==
    LET values == ValuesOf(readings_list)
        processed_data == prepare_for_model(values, WindowSize, TRUE).result[1]
        results == detect_with_confidence(detector, Scored(processed_data, answers),
                                          DefaultMinConfidence).result[1]
        anomalies == SelectSeq(results, IsAnomaly)
    IN  [readings_list |-> readings_list, values |-> values, results |-> results,
         anomalies |-> anomalies,
         events |-> create_events(plot, sensor_type, anomalies, readings_list)]

DetectError(plot_id, sensor_type, code, error) ==
    [op |-> "detect", plot_id |-> plot_id, sensor_type |-> sensor_type,
     status |-> code, error |-> error,
     model_exists |-> disk[sensor_type].kind # "absent"]

(* POST /api/ml/detect/ *)
detect(plot_id, sensor_type, answers) ==
    LET detector == load_detector_from_disk(sensor_type)
    IN  IF ~detector.is_trained
        THEN DetectError(plot_id, sensor_type, 400, "Model not trained")
        ELSE IF plot_id \notin FieldPlots
        THEN DetectError(plot_id, sensor_type, 404, "Plot does not exist")
        ELSE LET readings_list == recent_readings(plot_id, sensor_type)
             IN  IF Len(readings_list) < MinReadings
                 THEN DetectError(plot_id, sensor_type, 400, "Not enough data")
                 ELSE LET run == run_detection(detector, plot_id, sensor_type,
                                               readings_list, answers)
                      IN  [op |-> "detect", plot_id |-> plot_id,
                           sensor_type |-> sensor_type, status |-> 200,
                           error |-> "", total_windows |-> Len(run.results),
                           anomalies_detected |-> Len(run.anomalies),
                           results |-> run.results, runs |-> <<run>>]

BatchEntry(plot_id, sensor_type, state, detail, anomalies_detected, runs) ==
    [plot_id |-> plot_id, sensor_type |-> sensor_type, status |-> state,
     detail |-> detail, anomalies_detected |-> anomalies_detected, runs |-> runs]

(* the scorer raises instead of answering (e.g. the rows do not have the *)
(* number of features the model was fitted with)                         *)
ScorerRaises == <<"ValueError">>

(* the body of the loops of batch_detect for one (plot, sensor type) *)
batch_item(plot_id, sensor_type, answers) ==
    LET detector == load_detector_from_disk(sensor_type)
    IN  IF ~detector.is_trained
        THEN BatchEntry(plot_id, sensor_type, "skipped", "model not trained", None, <<>>)
        ELSE LET readings_list == recent_readings(plot_id, sensor_type)
             IN  IF Len(readings_list) < MinReadings
                 THEN BatchEntry(plot_id, sensor_type, "skipped", "insufficient data",
                                 None, <<>>)
                 ELSE IF answers = ScorerRaises
                 THEN BatchEntry(plot_id, sensor_type, "error", "ValueError", None, <<>>)
                 ELSE LET run == run_detection(detector, plot_id, sensor_type,
                                               readings_list, answers)
                      IN  BatchEntry(plot_id, sensor_type, "success", "",
                                     Some(Len(run.anomalies)), <<run>>)

RECURSIVE Flatten(_)
Flatten(seqs) == IF seqs = <<>> THEN <<>> ELSE Head(seqs) \o Flatten(Tail(seqs))

AnomaliesOf(entry) ==
    IF entry.anomalies_detected = None THEN 0 ELSE entry.anomalies_detected[1]

batch_detect_break(plot_ids, sensor_types, answers) ==
    LET ids == IF plot_ids = <<>> THEN FieldPlotIds ELSE plot_ids
        missing == {i \in 1..Len(ids) : ids[i] \notin FieldPlots}
        last == IF missing = {} THEN Len(ids)
                ELSE CHOOSE i \in missing : \A j \in missing : i <= j
        OfPlot(plot_id) ==
            IF plot_id \notin FieldPlots
            THEN <<BatchEntry(plot_id, "all", "error", "Plot does not exist", None, <<>>)>>
            ELSE [j \in 1..Len(sensor_types) |->
                     batch_item(plot_id, sensor_types[j],
                                answers[<<plot_id, sensor_types[j]>>])]
        results == Flatten([i \in 1..last |-> OfPlot(ids[i])])
    IN  [op |-> "batch_detect", status |-> 200, results |-> results,
         total_processed |-> Len(results),
         total_anomalies |-> Sum([i \in 1..Len(results) |-> AnomaliesOf(results[i])]),
         runs |-> Flatten([i \in 1..Len(results) |-> results[i].runs])]

(* POST /api/ml/batch-detect/; answers[<<plot, sensor type>>] are the      *)
(* scorer's answers for that pair                                          *)
batch_detect(plot_ids, sensor_types, answers) ==
    LET ids == IF plot_ids = <<>> THEN FieldPlotIds ELSE plot_ids
        OfPlot(plot_id) ==
            IF plot_id \notin FieldPlots
            THEN <<BatchEntry(plot_id, "all", "error", "Plot does not exist", None, <<>>)>>
            ELSE [j \in 1..Len(sensor_types) |->
                     batch_item(plot_id, sensor_types[j],
                                answers[<<plot_id, sensor_types[j]>>])]
        results == Flatten([i \in 1..Len(ids) |-> OfPlot(ids[i])])
    IN  [op |-> "batch_detect", status |-> 200, results |-> results,
         total_processed |-> Len(results),
         total_anomalies |-> Sum([i \in 1..Len(results) |-> AnomaliesOf(results[i])]),
         runs |-> Flatten([i \in 1..Len(results) |-> results[i].runs])]

TrainError(sensor_type, code, error) ==
    [op |-> "train", sensor_type |-> sensor_type, status |-> code, error |-> error]

(* POST /api/ml/train/ up to the call of save_detector_to_disk: the        *)
(* detector to save, or the response that ends the request                 *)
train_request(sensor_type, use_recent_data, training_rows, now) ==
    LET detector == load_detector_from_disk(sensor_type)
        values == get_recent_readings_all_plots(sensor_type, TrainDataPoints)
        n_rows == IF use_recent_data
                  THEN Len(prepare_for_model(values, WindowSize, TRUE).result[1])
                  ELSE training_rows
    IN  IF use_recent_data /\ Len(values) < MinReadings
        THEN [done |-> TRUE, response |-> TrainError(sensor_type, 400, "Not enough data")]
        ELSE IF ~use_recent_data /\ training_rows = 0
        THEN [done |-> TRUE,
              response |-> TrainError(sensor_type, 400,
                                      "Either use_recent_data or training_data required")]
        ELSE LET r == train(detector, n_rows, now)
             IN  IF r.outcome # "ok"
                 THEN [done |-> TRUE, response |-> TrainError(sensor_type, 500, r.outcome)]
                 ELSE [done |-> FALSE, detector |-> r.self, stats |-> r.result[1]]

----------------------------------------------------------------------------
(* The ML endpoints over the model files: one train request at a time,     *)
(* whose save is two steps (the file is opened for writing, then the dump  *)
(* ends), and detect and batch-detect requests that load the file at any   *)
(* moment.  ml_resp keeps the last response with the AnomalyEvent rows the *)
(* request inserted; no ML endpoint reads that table.                      *)

ViewRows == {[pred |-> -1, score |-> -6000], [pred |-> 1, score |-> -3000]}
TrainingRows == {0, MinTrainSamples - 1, MinTrainSamples}
ReadingCounts == {MinReadings - 1, MaxReadings}
RequestPlotIds == FieldPlots \cup {2}

IdleTrainer == [pc |-> "idle"]

(* the number of rows the scorer is asked about for (plot_id, sensor_type): *)
(* none unless the model is loaded, the plot exists and has enough readings *)
WindowsOf(plot_id, sensor_type) ==
    IF plot_id \in FieldPlots
       /\ load_detector_from_disk(sensor_type).is_trained
       /\ Len(recent_readings(plot_id, sensor_type)) >= WindowSize
    THEN Len(recent_readings(plot_id, sensor_type)) - WindowSize + 1
    ELSE 0

AnswersFor(plot_id, sensor_type) == [1..WindowsOf(plot_id, sensor_type) -> ViewRows]

InitML ==
    /\ disk = [s \in SensorTypes |-> NoFile]
    /\ trainer = IdleTrainer
    /\ ml_clock = 0
    /\ ml_readings \in [FieldPlots \X SensorTypes -> ReadingCounts]
    /\ ml_saved = {}
    /\ ml_resp = [op |-> "none"]
    /\ DetIdle
    /\ ConfIdle
    /\ RuleIdle
    /\ AgIdle
    /\ PreIdle
    /\ SimIdle

TrainStart(sensor_type, use_recent_data, training_rows) ==
    /\ trainer.pc = "idle"
    /\ ml_clock < MaxTrainings
    /\ LET t == train_request(sensor_type, use_recent_data, training_rows, ml_clock + 1)
       IN  IF t.done
           THEN /\ ml_resp' = t.response
                /\ UNCHANGED <<trainer, ml_clock>>
           ELSE /\ trainer' = [pc |-> "save", sensor_type |-> sensor_type,
                               detector |-> t.detector, stats |-> t.stats]
                /\ ml_clock' = ml_clock + 1
                /\ UNCHANGED ml_resp
    /\ UNCHANGED <<disk, ml_readings, ml_saved, mlOthers>>

(* save_model, first half: open(filepath, 'wb') truncates the file *)
TrainOpen ==
    /\ trainer.pc = "save"
    /\ save_model(trainer.detector, disk[trainer.sensor_type]).outcome = "ok"
    /\ disk' = [disk EXCEPT ![trainer.sensor_type] = open_wb(@)]
    /\ trainer' = [trainer EXCEPT !.pc = "dump"]
    /\ UNCHANGED <<ml_clock, ml_readings, ml_saved, ml_resp, mlOthers>>

(* save_model, second half: pickle.dump ends, the file is closed, and the  *)
(* request answers                                                         *)
TrainDump ==
    /\ trainer.pc = "dump"
    /\ disk' = [disk EXCEPT ![trainer.sensor_type] = save_model(trainer.detector, @).file]
    /\ ml_saved' = ml_saved \cup {trainer.sensor_type}
    /\ ml_resp' = [op |-> "train", sensor_type |-> trainer.sensor_type,
                   status |-> 200, error |-> "", stats |-> trainer.stats]
    /\ trainer' = IdleTrainer
    /\ UNCHANGED <<ml_clock, ml_readings, mlOthers>>

Detect(plot_id, sensor_type) ==
    /\ \E answers \in AnswersFor(plot_id, sensor_type) :
          ml_resp' = detect(plot_id, sensor_type, answers)
    /\ UNCHANGED <<disk, trainer, ml_clock, ml_readings, ml_saved, mlOthers>>

(* the existing plots a batch request asks about *)
BatchTargets(plot_ids) ==
    IF plot_ids = <<>> THEN FieldPlots
    ELSE {plot_ids[i] : i \in 1..Len(plot_ids)} \cap FieldPlots

BatchDetect(plot_ids, sensor_type) ==
    /\ \E answers \in [{<<p, sensor_type>> : p \in BatchTargets(plot_ids)} ->
                          AnswersFor(FieldPlotIds[1], sensor_type)] :
          ml_resp' = batch_detect(plot_ids, <<sensor_type>>, answers)
    /\ UNCHANGED <<disk, trainer, ml_clock, ml_readings, ml_saved, mlOthers>>

(* the sensor types training requests are made for; the third stays untrained *)
TrainedSensorTypes == {"moisture", "temperature"}

NextML ==
    \/ \E s \in TrainedSensorTypes : TrainStart(s, TRUE, 0)
    \/ \E s \in TrainedSensorTypes, n \in TrainingRows : TrainStart(s, FALSE, n)
    \/ TrainOpen
    \/ TrainDump
    \/ \E p \in RequestPlotIds, s \in SensorTypes : Detect(p, s)
    \/ \E ids \in {<<>>, <<2>>}, s \in SensorTypes : BatchDetect(ids, s)

SpecML == InitML /\ [][NextML]_vars

(* the detect view's loop over the flagged rows of conf_out, with the      *)
(* readings the rows of conf_in.data were made of                          *)
ConfCreateEvents ==
    /\ conf_out # <<>>
    /\ conf_events = <<>>
    /\ LET n == Len(conf_in.data) + WindowSize - 1
           readings_list == [i \in 1..n |-> Reading(1, "moisture", n + 1 - i)]
       IN  conf_events' = create_events(1, "moisture", SelectSeq(conf_out, IsAnomaly),
                                        readings_list)
    /\ UNCHANGED <<conf_in, conf_out, confOthers>>

NextConf ==
    \/ ConfDetect
    \/ ConfCreateEvents

SpecConf == InitConf /\ [][NextConf]_vars

----------------------------------------------------------------------------
(* Claims about the ML endpoints. *)

NotTrainedAnswer(sensor_type) ==
    \/ /\ ml_resp.op = "detect"
       /\ ml_resp.sensor_type = sensor_type
       /\ ml_resp.status = 400
       /\ ml_resp.error = "Model not trained"
    \/ /\ ml_resp.op = "batch_detect"
       /\ \E i \in 1..Len(ml_resp.results) :
             /\ ml_resp.results[i].sensor_type = sensor_type
             /\ ml_resp.results[i].detail = "model not trained"

\* C3: a request that loads the model file of a sensor type sees the whole
\* previous model or the whole new one, never a partly written file: once a
\* model of the type has been saved, no detect or batch-detect answers that
\* the type is not trained.
C3_ReadersSeeCompleteModel ==
    \A s \in SensorTypes : s \in ml_saved => ~NotTrainedAnswer(s)

(* the storage value the claim gives each tier *)
ClaimedStorage(severity) ==
    CASE severity \in {"CRITICAL", "HIGH"} -> "high"
      [] severity = "MEDIUM" -> "medium"
      [] severity \in {"LOW", "NORMAL"} -> "low"
      [] OTHER -> "medium"

DetectionRuns ==
    IF ml_resp.op \in {"detect", "batch_detect"} /\ ml_resp.status = 200
    THEN {ml_resp.runs[i] : i \in 1..Len(ml_resp.runs)}
    ELSE {}

NewestFirst(readings) ==
    \A i \in 1..(Len(readings) - 1) : readings[i].timestamp > readings[i + 1].timestamp

OldestFirst(readings) ==
    \A i \in 1..(Len(readings) - 1) : readings[i].timestamp < readings[i + 1].timestamp

(* the readings window i (from 0) of the fed sequence is made of *)
WindowReadings(run, i) == {run.readings_list[j] : j \in (i + 1)..(i + WindowSize)}

\* C9 as stated: the readings fed to the preprocessor are oldest-first, and
\* the record of every flagged window i references the reading at index
\* i + window_size - 1 of the fed sequence, never the one at index i.
C9_ProvenanceOldestFirst ==
    \A run \in DetectionRuns :
        /\ run.values = ValuesOf(run.readings_list)
        /\ OldestFirst(run.readings_list)
        /\ \A k \in 1..Len(run.events) :
              /\ run.events[k].sensor_reading =
                    run.readings_list[run.anomalies[k].index + WindowSize]
              /\ run.events[k].sensor_reading #
                    run.readings_list[run.anomalies[k].index + 1]

\* C9 amended: the readings are fed newest-first, as the query returns them;
\* the record of every flagged window i references the reading at index i of
\* the fed sequence, which is the newest reading inside window i; i is always
\* a valid index, so the fallback to the most recent reading is never taken.
C9_ProvenanceNewestFirst ==
    \A run \in DetectionRuns :
        /\ run.values = ValuesOf(run.readings_list)
        /\ NewestFirst(run.readings_list)
        /\ Len(run.events) = Len(run.anomalies)
        /\ \A k \in 1..Len(run.events) :
              LET i == run.anomalies[k].index
                  linked == run.events[k].sensor_reading
              IN  /\ i < Len(run.readings_list)
                  /\ linked = run.readings_list[i + 1]
                  /\ linked \in WindowReadings(run, i)
                  /\ \A r \in WindowReadings(run, i) : r.timestamp <= linked.timestamp

C9_Witness ==
    /\ ml_resp.op = "detect"
    /\ ml_resp.status = 200
    /\ \E k \in 1..Len(ml_resp.runs[1].events) :
          /\ ml_resp.runs[1].anomalies[k].index = 1
          /\ ml_resp.runs[1].events[k].sensor_reading.timestamp = MaxReadings - 1

----------------------------------------------------------------------------
(* ai_agent: AgentService over the AnomalyEvent and AgentRecommendation    *)
(* tables, called by the post_save handler, the manual endpoint and        *)
(* process-pending, each a request of its own.                             *)

MaxAgentEvents == 2

AgentEventIds == 1..MaxAgentEvents
Workers == {"signal", "manual", "pending"}

AgentSensor(id) ==
    CASE id % 3 = 1 -> "moisture"
      [] id % 3 = 2 -> "temperature"
      [] OTHER -> "humidity"

AgentTrigger(id) ==
    CASE id % 3 = 1 -> 3000
      [] id % 3 = 2 -> 2000
      [] OTHER -> 5000

(* the readings that precede the triggering reading of the event: two of *)
(* the sensor's values for an odd id, none for an even id, whose context *)
(* then holds no change rate                                             *)
AgentPriors(id) ==
    IF id % 2 = 0 THEN {<<>>}
    ELSE {<<CHOOSE v \in PriorValues(AgentSensor(id)) :
               \A u \in PriorValues(AgentSensor(id)) : u <= v,
            CHOOSE v \in PriorValues(AgentSensor(id)) :
               \A u \in PriorValues(AgentSensor(id)) : v <= u>>}

(* the store analyze_anomaly reads for the event ev = [id, priors], with a *)
(* number of other anomalies of the plot                                   *)
AgentStore(ev, others) ==
    LET in == RuleInput([name |-> AnomalyTypeOf(AgentSensor(ev.id)),
                         sensor_type |-> AgentSensor(ev.id)],
                        "high", DefaultMinConfidence, TRUE, AgentTrigger(ev.id),
                        ev.priors, others)
    IN  [in EXCEPT !.anomaly_event.id = ev.id]

(* spec-modelled: AgentRecommendation.anomaly_event is a one-to-one        *)
(* relation, so the table refuses a second row for an event                *)
objects_create_unchecked(recs, row) ==
    [outcome |-> "ok", recs |-> recs \cup {row}]

objects_create(recs, row) ==
    IF \E r \in recs : r.anomaly_event = row.anomaly_event
    THEN [outcome |-> "IntegrityError", recs |-> recs]
    ELSE [outcome |-> "ok", recs |-> recs \cup {row}]

recommendation_of_any(recs, anomaly_id) ==
    IF recs = {} THEN None
    ELSE Some(CHOOSE r \in recs : \A q \in recs : q.anomaly_event >= r.anomaly_event)

(* hasattr(anomaly_event, 'recommendation') and the row it answers *)
recommendation_of(recs, anomaly_id) ==
    IF \E r \in recs : r.anomaly_event = anomaly_id
    THEN Some(CHOOSE r \in recs : r.anomaly_event = anomaly_id)
    ELSE None

Returned(anomaly_id, outcome, recommendation) ==
    [event |-> anomaly_id, outcome |-> outcome, recommendation |-> recommendation]

on_exception_swallowed(anomaly_id, error) ==
    Returned(anomaly_id, "ok", None)

(* the except clause of process_anomaly: the error is logged and raised *)
(* again                                                                *)
on_exception(anomaly_id, error) ==
    Returned(anomaly_id, error, None)

(* process_anomaly up to the create: the existing recommendation, the      *)
(* error of the analysis, or the analysis to store                         *)
process_anomaly_check(recs, ev, others) ==
    LET existing == recommendation_of(recs, ev.id)
        in == AgentStore(ev, others)
        analysis == analyze_anomaly(in.anomaly_event, in.readings, in.anomalies)
    IN  IF existing # None
        THEN [done |-> TRUE, ret |-> Returned(ev.id, "ok", existing)]
        ELSE IF analysis.outcome # "ok"
        THEN [done |-> TRUE, ret |-> on_exception(ev.id, analysis.outcome)]
        ELSE [done |-> FALSE, analysis |-> analysis.result[1]]

(* process_anomaly from AgentRecommendation.objects.create on; when the    *)
(* database is not available the insert raises and transaction.atomic()    *)
(* leaves no row                                                           *)
process_anomaly_create(recs, ev, analysis, db_available) ==
    LET row == [id |-> Cardinality(recs) + 1, anomaly_event |-> ev.id,
                recommended_action |-> analysis.recommended_action,
                explanation_text |-> analysis.explanation_text,
                confidence |-> analysis.confidence]
        r == IF db_available THEN objects_create(recs, row)
             ELSE [outcome |-> "OperationalError", recs |-> recs]
    IN  [recs |-> r.recs,
         ret |-> IF r.outcome = "ok" THEN Returned(ev.id, "ok", Some(row))
                 ELSE on_exception(ev.id, r.outcome)]

EventTimestamp(ev) == AgentStore(ev, 0).anomaly_event.timestamp

(* the plot of the record id: the odd records are on plot 2, the even on *)
(* plot 1                                                                *)
AgentPlot(id) == 1 + (id % 2)

(* the plot_id of a request: absent, 0, or a plot *)
PlotFilters == {None, Some(0), Some(1), Some(2)}

(* get_pending_anomalies: the events with no recommendation, of the plot   *)
(* when plot_id is truthy, latest first                                    *)
get_pending_anomalies(events, recs, plot_id) ==
    LET query == {x \in events : recommendation_of(recs, x.id) = None}
        filtered == IF plot_id # None /\ plot_id[1] # 0
                    THEN {x \in query : AgentPlot(x.id) = plot_id[1]}
                    ELSE query
        pending == SortDesc({[ev |-> ev, timestamp |-> EventTimestamp(ev) * 10 + ev.id] :
                                ev \in filtered})
    IN  [i \in 1..Len(pending) |-> pending[i].ev]

IdleWorker == [pc |-> "idle"]

InitAgent ==
    /\ ag_events = {}
    /\ ag_recs = {}
    /\ ag_workers = [w \in Workers |-> IdleWorker]
    /\ ag_ret = [worker |-> "none", call |-> Returned(0, "none", None)]
    /\ ag_resp = [status |-> 0]
    /\ DetIdle
    /\ ConfIdle
    /\ RuleIdle
    /\ MLIdle
    /\ PreIdle
    /\ SimIdle

Working(ev, queue, processed, total) ==
    [pc |-> "check", event |-> ev, queue |-> queue, processed |-> processed,
     total |-> total]

process_anomaly_event_always(instance, created) ==
    Working(instance, <<>>, 0, 1)

(* signals.process_anomaly_event up to its call of process_anomaly: one    *)
(* call for a record that was just created, none for any other save        *)
process_anomaly_event(instance, created) ==
    IF created THEN Working(instance, <<>>, 0, 1) ELSE IdleWorker

(* an AnomalyEvent is inserted and post_save calls the handler with        *)
(* created = True                                                          *)
SignalStart(id, priors) ==
    /\ ag_workers["signal"].pc = "idle"
    /\ \A ev \in ag_events : ev.id # id
    /\ ag_events' = ag_events \cup {[id |-> id, priors |-> priors]}
    /\ ag_workers' = [ag_workers EXCEPT
                        !["signal"] = process_anomaly_event([id |-> id, priors |-> priors],
                                                            TRUE)]
    /\ UNCHANGED <<ag_recs, ag_ret, ag_resp, agOthers>>

(* a stored AnomalyEvent is saved again and post_save calls the handler    *)
(* with created = False; the save returns to its caller                    *)
SignalSave(id) ==
    /\ ag_workers["signal"].pc = "idle"
    /\ \E ev \in ag_events :
          /\ ev.id = id
          /\ ag_workers' = [ag_workers EXCEPT
                              !["signal"] = process_anomaly_event(ev, FALSE)]
    /\ ag_ret' = [worker |-> "save", call |-> Returned(id, "none", None)]
    /\ UNCHANGED <<ag_events, ag_recs, ag_resp, agOthers>>

(* POST /api/agent/process/<anomaly_id>/ *)
ManualStart(anomaly_id) ==
    /\ ag_workers["manual"].pc = "idle"
    /\ IF \E ev \in ag_events : ev.id = anomaly_id
       THEN /\ ag_workers' = [ag_workers EXCEPT
                                !["manual"] = Working(CHOOSE ev \in ag_events :
                                                         ev.id = anomaly_id, <<>>, 0, 1)]
            /\ UNCHANGED ag_resp
       ELSE /\ ag_resp' = [op |-> "process", anomaly_id |-> anomaly_id, status |-> 404]
            /\ UNCHANGED ag_workers
    /\ UNCHANGED <<ag_events, ag_recs, ag_ret, agOthers>>

(* POST /api/agent/process-pending/ *)
PendingStart ==
    /\ ag_workers["pending"].pc = "idle"
    /\ LET pending == get_pending_anomalies(ag_events, ag_recs, None)
       IN  IF Len(pending) = 0
           THEN /\ ag_resp' = [op |-> "process-pending", status |-> 200, processed |-> 0,
                               message |-> "No pending anomalies"]
                /\ UNCHANGED ag_workers
           ELSE /\ ag_workers' = [ag_workers EXCEPT
                                    !["pending"] = Working(Head(pending), Tail(pending),
                                                           0, Len(pending))]
                /\ UNCHANGED ag_resp
    /\ UNCHANGED <<ag_events, ag_recs, ag_ret, agOthers>>

(* process_anomaly has returned or raised in worker w: the handler logs,   *)
(* the manual endpoint answers, process-pending goes on with the next      *)
(* event or answers                                                        *)
AfterReturn(w, ret) ==
    LET me == ag_workers[w]
        processed == me.processed + (IF ret.outcome = "ok" THEN 1 ELSE 0)
    IN  /\ ag_ret' = [worker |-> w, call |-> ret]
        /\ CASE w = "signal" ->
                  /\ ag_workers' = [ag_workers EXCEPT ![w] = IdleWorker]
                  /\ UNCHANGED ag_resp
             [] w = "manual" ->
                  /\ ag_workers' = [ag_workers EXCEPT ![w] = IdleWorker]
                  /\ ag_resp' = [op |-> "process", anomaly_id |-> ret.event,
                                 status |-> IF ret.outcome = "ok" THEN 200 ELSE 500,
                                 recommendation |-> ret.recommendation]
             [] w = "pending" ->
                  IF me.queue # <<>>
                  THEN /\ ag_workers' = [ag_workers EXCEPT
                                           ![w] = Working(Head(me.queue), Tail(me.queue),
                                                          processed, me.total)]
                       /\ UNCHANGED ag_resp
                  ELSE /\ ag_workers' = [ag_workers EXCEPT ![w] = IdleWorker]
                       /\ ag_resp' = [op |-> "process-pending", status |-> 200,
                                      processed |-> processed,
                                      total_pending |-> me.total,
                                      failed |-> me.total - processed]

(* process_anomaly: the check for an existing recommendation and the       *)
(* analysis, which reads the store as it is at that moment                 *)
ProcessCheck(w, others) ==
    /\ ag_workers[w].pc = "check"
    /\ LET c == process_anomaly_check(ag_recs, ag_workers[w].event, others)
       IN  IF c.done
           THEN AfterReturn(w, c.ret)
           ELSE /\ ag_workers' = [ag_workers EXCEPT
                                    ![w] = [@ EXCEPT !.pc = "create"] @@
                                           [analysis |-> c.analysis]]
                /\ UNCHANGED <<ag_ret, ag_resp>>
    /\ UNCHANGED <<ag_events, ag_recs, agOthers>>

(* process_anomaly: the insert inside transaction.atomic() *)
ProcessCreate(w, db_available) ==
    /\ ag_workers[w].pc = "create"
    /\ LET c == process_anomaly_create(ag_recs, ag_workers[w].event,
                                       ag_workers[w].analysis, db_available)
       IN  /\ ag_recs' = c.recs
           /\ AfterReturn(w, c.ret)
    /\ UNCHANGED <<ag_events, agOthers>>

NextAgent ==
    \/ \E id \in AgentEventIds : \E priors \in AgentPriors(id) : SignalStart(id, priors)
    \/ \E id \in AgentEventIds \cup {0} : ManualStart(id)
    \/ PendingStart
    \/ \E w \in Workers, others \in {0, MaxOtherAnomalies} : ProcessCheck(w, others)
    \/ \E w \in Workers : ProcessCreate(w, TRUE)
    \/ ProcessCreate("manual", FALSE)

SpecAgent == InitAgent /\ [][NextAgent]_vars

----------------------------------------------------------------------------
(* Claims about the agent. *)

RecommendationsOf(anomaly_id) == {r \in ag_recs : r.anomaly_event = anomaly_id}

\* C1: in every reachable state each AnomalyEvent has at most one
\* AgentRecommendation, however the checks and the creates of the post_save
\* handler, the manual endpoint and process-pending interleave.
C1_AtMostOneRecommendation ==
    \A id \in AgentEventIds : Cardinality(RecommendationsOf(id)) <= 1

C1_Witness ==
    /\ ag_ret.call.outcome = "IntegrityError"
    /\ Cardinality(RecommendationsOf(ag_ret.call.event)) = 1

\* C2: every process_anomaly call that does not fail returns the one
\* recommendation of its event: the stored row, with the id, action,
\* explanation and confidence it was created with, is the only one of the
\* event and is what each call answers.
C2_ProcessAnomalyIdempotent ==
    /\ ag_ret.call.outcome = "ok" =>
          RecommendationsOf(ag_ret.call.event) = {ag_ret.call.recommendation[1]}
    /\ (ag_resp.status = 200 /\ ag_resp.op = "process") =>
          RecommendationsOf(ag_resp.anomaly_id) = {ag_resp.recommendation[1]}

C2_Witness ==
    /\ ag_resp.status = 200
    /\ ag_resp.op = "process"
    /\ ag_ret.worker = "signal"
    /\ ag_ret.call.outcome = "ok"
    /\ ag_ret.call.event = ag_resp.anomaly_id
    /\ ag_ret.call.recommendation = ag_resp.recommendation
    /\ \A w \in Workers : ag_workers[w].pc = "idle"

----------------------------------------------------------------------------
(* Claims about the rule engine. *)

\* C11: whenever analyze returns a result for an anomaly whose
\* model_confidence is in [0, 1], the confidence of the result is in [0, 1],
\* in the branches that add 0.15 and in those that use the change-rate boost
\* of _calculate_confidence as well.
C11_ConfidenceInUnitInterval ==
    (/\ rule_out # <<>>
     /\ rule_out[1].analysis.outcome = "ok") =>
        /\ rule_out[1].analysis.result[1].confidence >= 0
        /\ rule_out[1].analysis.result[1].confidence <= One

C11_Witness ==
    /\ rule_out # <<>>
    /\ rule_in[1].anomaly_event.model_confidence = DefaultMinConfidence
    /\ rule_out[1].context.change_rate # None
    /\ Abs(rule_out[1].context.change_rate[1]) > 2000
    /\ rule_out[1].analysis.outcome = "ok"
    /\ rule_out[1].analysis.result[1].recommended_action =
          "Check irrigation system immediately - possible failure or leak detected"
    /\ rule_out[1].analysis.result[1].confidence = One

C13_FailureReraisedNothingStored ==
    [][ag_ret' # ag_ret =>
          LET c == ag_ret'.call
          IN  /\ c.outcome = "ok" =>
                    /\ c.recommendation # None
                    /\ c.recommendation[1] \in ag_recs'
                    /\ c.recommendation[1].anomaly_event = c.event
              /\ c.outcome # "ok" =>
                    /\ ag_recs' = ag_recs
                    /\ (RecommendationsOf(c.event) = {} =>
                          {r \in ag_recs' : r.anomaly_event = c.event} = {})]_vars

C13_Witness ==
    /\ ag_ret.call.outcome = "OperationalError"
    /\ ag_ret.worker = "manual"
    /\ \E ev \in ag_events : ev.id = ag_ret.call.event
    /\ RecommendationsOf(ag_ret.call.event) = {}

----------------------------------------------------------------------------
(* The agent service called by one caller at a time. *)

MaxServiceEvents == 2

ServiceEventIds == 1..MaxServiceEvents

ServiceEvents ==
    {[id |-> id, priors |-> CHOOSE p \in AgentPriors(id) : TRUE] : id \in ServiceEventIds}

(* the lists without repetition over a set of records *)
ListsOf(S) ==
    {l \in UNION {[1..n -> S] : n \in 0..Cardinality(S)} :
        \A i, j \in DOMAIN l : l[i] = l[j] => i = j}

(* process_anomaly after its check c: the answer of the check, or the insert *)
process_anomaly_from(recs, ev, c, db_down) ==
    IF c.done THEN [recs |-> recs, ret |-> c.ret]
    ELSE process_anomaly_create(recs, ev, c.analysis, ev.id \notin db_down)

(* process_anomaly as one call; the insert fails for the records of db_down *)
process_anomaly(recs, ev, others, db_down) ==
    process_anomaly_from(recs, ev, process_anomaly_check(recs, ev, others), db_down)

(* one turn of the loop of process_multiple_anomalies: p is what           *)
(* process_anomaly did, the recommendation is appended when it returned    *)
multiple_step(done, p) ==
    IF p.ret.outcome = "ok"
    THEN [outcome |-> "ok", recs |-> p.recs,
          recommendations |-> Append(done.recommendations, p.ret.recommendation[1])]
    ELSE [done EXCEPT !.recs = p.recs]

multiple_step_break(done, p) ==
    IF done.outcome = "stopped" THEN done
    ELSE IF p.ret.outcome = "ok" THEN multiple_step(done, p)
    ELSE [done EXCEPT !.outcome = "stopped"]

process_multiple_break(recs, anomaly_events, others, db_down) ==
    LET loop[i \in 0..Len(anomaly_events)] ==
            IF i = 0
            THEN [outcome |-> "ok", recs |-> recs, recommendations |-> <<>>]
            ELSE multiple_step_break(loop[i - 1],
                                     process_anomaly(loop[i - 1].recs, anomaly_events[i],
                                                     others, db_down))
    IN  [loop[Len(anomaly_events)] EXCEPT !.outcome = "ok"]

(* process_multiple_anomalies: each record in its own try, a failure is *)
(* logged and the loop continues; loop[i] is the state after i records  *)
process_multiple_anomalies(recs, anomaly_events, others, db_down) ==
    LET loop[i \in 0..Len(anomaly_events)] ==
            IF i = 0
            THEN [outcome |-> "ok", recs |-> recs, recommendations |-> <<>>]
            ELSE multiple_step(loop[i - 1],
                               process_anomaly(loop[i - 1].recs, anomaly_events[i],
                                               others, db_down))
    IN  loop[Len(anomaly_events)]

(* the summary of process_pending_anomalies for count pending records and *)
(* the answer r of process_multiple_anomalies                             *)
pending_summary(count, r) ==
    [recs |-> r.recs,
     result |-> [success |-> TRUE, processed |-> Len(r.recommendations),
                 total_pending |-> count,
                 failed |-> count - Len(r.recommendations)]]

(* process_pending_anomalies once the query has answered pending *)
process_pending_from(recs, pending, others, db_down) ==
    IF Len(pending) = 0
    THEN [recs |-> recs,
          result |-> [success |-> TRUE, processed |-> 0,
                      message |-> "No pending anomalies"]]
    ELSE pending_summary(Len(pending),
                         process_multiple_anomalies(recs, pending, others, db_down))

(* process_pending_anomalies as one call *)
process_pending_anomalies(events, recs, plot_id, others, db_down) ==
    process_pending_from(recs, get_pending_anomalies(events, recs, plot_id), others,
                         db_down)

InitService ==
    /\ ag_events = ServiceEvents
    /\ ag_recs = {}
    /\ ag_workers = [w \in Workers |-> IdleWorker]
    /\ ag_ret = [worker |-> "none", call |-> Returned(0, "none", None)]
    /\ ag_resp = [status |-> 0]
    /\ DetIdle
    /\ ConfIdle
    /\ RuleIdle
    /\ MLIdle
    /\ PreIdle
    /\ SimIdle

(* a call of process_multiple_anomalies; the answer is kept with the call *)
ServiceMultiple(anomaly_events, others, db_down) ==
    /\ ag_resp' = [op |-> "process_multiple", anomaly_events |-> anomaly_events,
                   others |-> others, db_down |-> db_down, before |-> ag_recs,
                   status |-> 0,
                   answer |-> process_multiple_anomalies(ag_recs, anomaly_events, others,
                                                         db_down)]
    /\ ag_recs' = ag_resp'.answer.recs
    /\ UNCHANGED <<ag_events, ag_workers, ag_ret, agOthers>>

(* POST /api/agent/process-pending/ with no other caller at work *)
ServicePending(plot_id, others, db_down) ==
    /\ ag_resp' = [op |-> "process-pending", plot_id |-> plot_id, others |-> others,
                   db_down |-> db_down, before |-> ag_recs, status |-> 200,
                   answer |-> process_pending_anomalies(ag_events, ag_recs, plot_id,
                                                        others, db_down)]
    /\ ag_recs' = ag_resp'.answer.recs
    /\ UNCHANGED <<ag_events, ag_workers, ag_ret, agOthers>>

(* the records whose insert fails during a call: none or one *)
DbDowns == {{}} \cup {{id} : id \in ServiceEventIds}

NextService ==
    \/ \E anomaly_events \in ListsOf(ag_events), others \in {0, MaxOtherAnomalies},
          db_down \in DbDowns :
           ServiceMultiple(anomaly_events, others, db_down)
    \/ \E plot_id \in PlotFilters, others \in {0, MaxOtherAnomalies},
          db_down \in DbDowns :
           ServicePending(plot_id, others, db_down)

SpecService == InitService /\ [][NextService]_vars

(* the record is processed without failure in the call that ag_resp keeps: *)
(* it had a recommendation, or its analysis succeeds and its insert too    *)
NonFailing(ev) ==
    \/ \E r \in ag_resp.before : r.anomaly_event = ev.id
    \/ /\ LET in == AgentStore(ev, ag_resp.others)
          IN  analyze_anomaly(in.anomaly_event, in.readings, in.anomalies).outcome = "ok"
       /\ ev.id \notin ag_resp.db_down

\* C14: a call of process_multiple does not raise and returns exactly the
\* recommendations of the records that do not fail, in the order of the
\* input, wherever the failing records are in the list; each of those
\* records has its recommendation stored afterwards.
C14_ProcessMultipleIsolatesFailures ==
    ("op" \in DOMAIN ag_resp /\ ag_resp.op = "process_multiple") =>
        LET expected == SelectSeq(ag_resp.anomaly_events, NonFailing)
        IN  /\ ag_resp.answer.outcome = "ok"
            /\ Len(ag_resp.answer.recommendations) = Len(expected)
            /\ \A i \in 1..Len(expected) :
                  /\ ag_resp.answer.recommendations[i].anomaly_event = expected[i].id
                  /\ ag_resp.answer.recommendations[i] \in ag_recs

C14_Witness ==
    /\ "op" \in DOMAIN ag_resp
    /\ ag_resp.op = "process_multiple"
    /\ Len(ag_resp.anomaly_events) = 2
    /\ ~NonFailing(ag_resp.anomaly_events[1])
    /\ NonFailing(ag_resp.anomaly_events[2])
    /\ Len(ag_resp.answer.recommendations) = 1
    /\ ag_resp.before = {}

(* the records a process-pending request is to select: those with no     *)
(* recommendation when the request arrives, of the plot when one is given *)
SelectedPending ==
    {ev \in ag_events :
        /\ \A r \in ag_resp.before : r.anomaly_event # ev.id
        /\ ag_resp.plot_id # None => AgentPlot(ev.id) = ag_resp.plot_id[1]}

\* C15: the answer of process_pending holds the processed count, the
\* total of pending records and the failed count for every backlog;
\* total pending is the number of records with no recommendation (of the
\* plot, when one is given), processed + failed = total pending, and after
\* a run with failed = 0 every selected record has a recommendation.
C15_PendingSummary ==
    (ag_resp.status = 200 /\ ag_resp.op = "process-pending") =>
        /\ {"processed", "total_pending", "failed"} \subseteq
              DOMAIN ag_resp.answer.result
        /\ ag_resp.answer.result.total_pending = Cardinality(SelectedPending)
        /\ ag_resp.answer.result.processed + ag_resp.answer.result.failed =
              ag_resp.answer.result.total_pending
        /\ ag_resp.answer.result.failed = 0 =>
              \A ev \in SelectedPending : RecommendationsOf(ev.id) # {}

----------------------------------------------------------------------------
(* batch_detect as a function of the request, the model files and the *)
(* readings.                                                          *)

DefaultSensorTypes == <<"moisture", "temperature", "humidity">>

BatchPlotIds == {<<>>, <<2, 1>>, <<1, 2>>}
BatchSensorTypes == {<<"moisture">>, <<"temperature", "moisture">>, DefaultSensorTypes}

(* the model files: absent or trained, and for moisture also one that is *)
(* being written                                                        *)
BatchDisks ==
    {f \in [SensorTypes -> {NoFile, open_wb(NoFile), FileOf(TrainedDetector)}] :
        \A t \in SensorTypes \ {"moisture"} : f[t].kind # "partial"}

InitBatch ==
    /\ disk \in BatchDisks
    /\ trainer = IdleTrainer
    /\ ml_clock = 0
    /\ ml_readings \in [FieldPlots \X SensorTypes -> ReadingCounts]
    /\ ml_saved = {}
    /\ ml_resp = [op |-> "none"]
    /\ DetIdle
    /\ ConfIdle
    /\ RuleIdle
    /\ AgIdle
    /\ PreIdle
    /\ SimIdle

(* one batch-detect request; the request is kept with its answer *)
BatchRequest(plot_ids, sensor_types) ==
    /\ ml_resp.op = "none"
    /\ \E answers \in [{<<p, sensor_types[j]>> : p \in FieldPlots,
                                                 j \in 1..Len(sensor_types)} ->
                          UNION {AnswersFor(p, s) : p \in FieldPlots, s \in SensorTypes}
                             \cup {ScorerRaises}] :
          /\ \A p \in FieldPlots, j \in 1..Len(sensor_types) :
                answers[<<p, sensor_types[j]>>] \in
                    AnswersFor(p, sensor_types[j]) \cup {ScorerRaises}
          /\ ml_resp' = batch_detect(plot_ids, sensor_types, answers) @@
                        [plot_ids |-> plot_ids, sensor_types |-> sensor_types,
                         answers |-> answers]
    /\ UNCHANGED <<disk, trainer, ml_clock, ml_readings, ml_saved, mlOthers>>

NextBatch ==
    \E plot_ids \in BatchPlotIds, sensor_types \in BatchSensorTypes :
        BatchRequest(plot_ids, sensor_types)

SpecBatch == InitBatch /\ [][NextBatch]_vars

(* the plots of a request: all plots when none is named *)
RequestedPlots == IF ml_resp.plot_ids = <<>> THEN FieldPlotIds ELSE ml_resp.plot_ids

(* the pairs of the cross product of the request, in the order of the loops *)
RequestedPairs ==
    Flatten([i \in 1..Len(RequestedPlots) |->
                [j \in 1..Len(ml_resp.sensor_types) |->
                    <<RequestedPlots[i], ml_resp.sensor_types[j]>>]])

(* what the entries are to be about: the pairs of the plots that exist, *)
(* and the plot as a whole ('all') for a plot that does not exist        *)
ReportedKeys ==
    Flatten([i \in 1..Len(RequestedPlots) |->
                IF RequestedPlots[i] \in FieldPlots
                THEN [j \in 1..Len(ml_resp.sensor_types) |->
                         <<RequestedPlots[i], ml_resp.sensor_types[j]>>]
                ELSE << <<RequestedPlots[i], "all">> >>])

WellFormedEntry(entry) ==
    \/ entry.status = "success" /\ entry.anomalies_detected # None
    \/ entry.status = "skipped"
          /\ entry.detail \in {"model not trained", "insufficient data"}
    \/ entry.status = "error" /\ entry.detail # ""

\* C16 (as stated): the answer of batch_detect has status 200 and holds
\* exactly one entry for every (plot, sensor type) pair of the requested
\* cross product, each a success with a count, a skip with a reason or an
\* error with a message.
C16_OneEntryPerPair ==
    ml_resp.op = "batch_detect" =>
        /\ ml_resp.status = 200
        /\ Len(ml_resp.results) = Len(RequestedPairs)
        /\ \A k \in 1..Len(RequestedPairs) :
              /\ ml_resp.results[k].plot_id = RequestedPairs[k][1]
              /\ ml_resp.results[k].sensor_type = RequestedPairs[k][2]
              /\ WellFormedEntry(ml_resp.results[k])

\* C16 (amended): the answer of batch_detect has status 200 and holds, in
\* the order of the request, exactly one entry for every pair of a requested
\* plot that exists and one error entry with sensor type 'all' for every
\* requested plot that does not exist; the entry of a pair is what the pair
\* yields on its own, whatever the other pairs yield.
C16_OneEntryPerPairOfExistingPlot ==
    ml_resp.op = "batch_detect" =>
        /\ ml_resp.status = 200
        /\ Len(ml_resp.results) = Len(ReportedKeys)
        /\ ml_resp.total_processed = Len(ReportedKeys)
        /\ \A k \in 1..Len(ReportedKeys) :
              LET entry == ml_resp.results[k]
              IN  /\ entry.plot_id = ReportedKeys[k][1]
                  /\ entry.sensor_type = ReportedKeys[k][2]
                  /\ WellFormedEntry(entry)
                  /\ IF entry.plot_id \in FieldPlots
                     THEN entry = batch_item(entry.plot_id, entry.sensor_type,
                                             ml_resp.answers[ReportedKeys[k]])
                     ELSE entry.status = "error"

C16_Witness ==
    /\ ml_resp.op = "batch_detect"
    /\ ml_resp.plot_ids = <<2, 1>>
    /\ Len(ml_resp.results) = 4
    /\ ml_resp.results[1].status = "error"
    /\ ml_resp.results[2].status = "skipped"
    /\ ml_resp.results[3].status = "error"
    /\ ml_resp.results[4].status = "success"

----------------------------------------------------------------------------
(* The preprocessor's windowing as a function of (window_size, values). *)

MaxWindowSize == 3
MaxValues == 5

WindowValues == {4000, 5500, 7000}

InitWindows ==
    /\ pre_in \in [window_size : 1..MaxWindowSize,
                   values : {<<>>} \cup SeqsUpTo(WindowValues, MaxValues),
                   use_features : BOOLEAN]
    /\ pre_out = <<>>
    /\ DetIdle
    /\ ConfIdle
    /\ RuleIdle
    /\ MLIdle
    /\ AgIdle
    /\ SimIdle

(* SensorDataPreprocessor(window_size).create_windows(values) *)
PreCreateWindows ==
    /\ pre_out = <<>>
    /\ pre_out' = <<[op |-> "create_windows",
                     answer |-> create_windows(pre_in.values, pre_in.window_size)]>>
    /\ UNCHANGED <<pre_in, preOthers>>

(* SensorDataPreprocessor(window_size).prepare_for_model(values, use_features) *)
PrePrepare ==
    /\ pre_out = <<>>
    /\ pre_out' = <<[op |-> "prepare_for_model",
                     answer |-> prepare_for_model(pre_in.values, pre_in.window_size,
                                                  pre_in.use_features)]>>
    /\ UNCHANGED <<pre_in, preOthers>>

NextWindows == PreCreateWindows \/ PrePrepare

SpecWindows == InitWindows /\ [][NextWindows]_vars

\* C17: for window_size w >= 1 and len(values) = w + k with k >= 0,
\* create_windows returns exactly k + 1 windows, each of length w, and
\* window i is values[i : i + w] for every i in 0..k.
C17_SlidingWindows ==
    (/\ pre_out # <<>>
     /\ pre_out[1].op = "create_windows"
     /\ Len(pre_in.values) >= pre_in.window_size) =>
        LET w == pre_in.window_size
            k == Len(pre_in.values) - w
        IN  /\ pre_out[1].answer.outcome = "ok"
            /\ Len(pre_out[1].answer.result[1]) = k + 1
            /\ \A i \in 0..k :
                  /\ Len(pre_out[1].answer.result[1][i + 1]) = w
                  /\ \A j \in 1..w :
                        pre_out[1].answer.result[1][i + 1][j] = pre_in.values[i + j]

C17_Witness ==
    /\ pre_out # <<>>
    /\ pre_out[1].op = "create_windows"
    /\ pre_in.window_size = 3
    /\ pre_in.values = <<4000, 5500, 7000, 5500, 4000>>
    /\ pre_out[1].answer.outcome = "ok"
    /\ pre_out[1].answer.result[1][3] = <<7000, 5500, 4000>>

\* C18: create_windows and prepare_for_model raise the error of too few
\* values, and return nothing, whenever len(values) < window_size, and do
\* not raise it when len(values) >= window_size.
C18_InsufficientData ==
    pre_out # <<>> =>
        IF Len(pre_in.values) < pre_in.window_size
        THEN /\ pre_out[1].answer.outcome = "ValueError"
             /\ pre_out[1].answer.result = <<>>
        ELSE /\ pre_out[1].answer.outcome = "ok"
             /\ pre_out[1].answer.result # <<>>

C18_Witness ==
    /\ pre_out # <<>>
    /\ pre_out[1].op = "prepare_for_model"
    /\ pre_in.use_features
    /\ Len(pre_in.values) = pre_in.window_size - 1
    /\ pre_in.window_size = 3
    /\ pre_out[1].answer.outcome = "ValueError"

----------------------------------------------------------------------------
(* Claims about the persistence of the detector. *)

(* the four things save_model writes, as a detector holds them *)
SavedFields(self) ==
    [model |-> self.model, is_trained |-> self.is_trained,
     training_data_size |-> self.training_data_size,
     training_date |-> self.training_date]

\* C19: what save_model leaves in the file is the scorer state, the trained
\* flag, the size and the date of the saving (trained) detector, and
\* load_model of that file into any detector gives a detector with exactly
\* these and is_trained true; load_model of a missing file raises
\* FileNotFoundError and leaves the detector as it was.
C19_SaveLoadRoundTrip ==
    /\ (dlast.op = "save_model" /\ dlast.outcome = "ok") =>
          /\ dlast.before.is_trained
          /\ fs.kind = "complete"
          /\ SavedFields(fs) = SavedFields(dlast.before)
    /\ fs.kind = "complete" =>
          /\ fs.is_trained
          /\ \E t \in 1..MaxClock, n \in MinTrainSamples..MaxRows :
                SavedFields(fs) = SavedFields(train(NewDetector, n, t).self)
    /\ dlast.op = "load_model" =>
          IF dlast.fs_before.kind = "absent"
          THEN /\ dlast.outcome = "FileNotFoundError"
               /\ det[dlast.d] = dlast.before
          ELSE /\ dlast.outcome = "ok"
               /\ det[dlast.d].is_trained
               /\ SavedFields(det[dlast.d]) = SavedFields(dlast.fs_before)

C19_Witness ==
    /\ dlast.op = "load_model"
    /\ dlast.outcome = "ok"
    /\ dlast.before.is_trained
    /\ dlast.before.training_date # det[dlast.d].training_date
    /\ \E d \in Detectors : d # dlast.d /\ det[d] = det[dlast.d]

----------------------------------------------------------------------------
(* Claims about the rule engine and its context. *)

\* C20: for every anomaly and every context the context builder returns,
\* its defaults included, analyze returns a result and does not raise.
C20_AnalyzeAlwaysAnswers ==
    \A i \in 1..Len(rule_out) : rule_out[i].analysis.outcome = "ok"

-----------------------------------------------------------------------------
(* The context builder over a store that grows.  The store holds the       *)
(* triggering reading with up to MaxContextPrior earlier readings of its   *)
(* stream, readings at and after its timestamp, of another plot and of     *)
(* another sensor, and AnomalyEvents before, at the edge of, inside and at *)
(* the anomaly's timestamp; AnomalyEvents with a later timestamp are       *)
(* inserted while the context of the same anomaly is built again.          *)

MaxContextPrior == 11
MaxLaterAnomalies == 2

ContextPriors(n) == [i \in 1..n |-> 5000 + 100 * i]

ContextEvent(n) ==
    [id |-> 1, plot |-> 1, sensor_reading |-> n + 1,
     anomaly_type |-> AnomalyTypeOf("moisture"), severity |-> "medium",
     model_confidence |-> DefaultMinConfidence, timestamp |-> n + 6]

(* the other AnomalyEvents a store may hold when the anomaly is created *)
ContextEarlier(event) ==
    {[event EXCEPT !.id = 2, !.timestamp = event.timestamp - ContextWindowHours - 1],
     [event EXCEPT !.id = 3, !.timestamp = event.timestamp - ContextWindowHours],
     [event EXCEPT !.id = 4, !.timestamp = event.timestamp - 1],
     [event EXCEPT !.id = 5],
     [event EXCEPT !.id = 6, !.plot = 2, !.timestamp = event.timestamp - 1]}

InitContext ==
    /\ \E n \in 0..MaxContextPrior :
         \E others \in SUBSET ContextEarlier(ContextEvent(n)) :
            rule_in = <<[anomaly_event |-> ContextEvent(n),
                         readings |-> StreamReadings("moisture", ContextPriors(n), 4000)
                                      \cup {[id |-> n + 5, plot |-> 1,
                                             sensor_type |-> "moisture",
                                             value |-> 400, timestamp |-> n + 1]},
                         anomalies |-> {ContextEvent(n)} \cup others]>>
    /\ rule_out = <<>>
    /\ DetIdle
    /\ ConfIdle
    /\ MLIdle
    /\ AgIdle
    /\ PreIdle
    /\ SimIdle

LaterAnomalies(in) ==
    {a \in in.anomalies : a.timestamp > in.anomaly_event.timestamp}

(* an AnomalyEvent of the same plot is created after the anomaly *)
ContextInsertLater ==
    /\ Cardinality(LaterAnomalies(rule_in[1])) < MaxLaterAnomalies
    /\ LET in == rule_in[1]
           later == [in.anomaly_event EXCEPT
                        !.id = 7 + Cardinality(LaterAnomalies(in)),
                        !.timestamp = in.anomaly_event.timestamp + 1 +
                                      Cardinality(LaterAnomalies(in))]
       IN  rule_in' = <<[in EXCEPT !.anomalies = in.anomalies \cup {later}]>>
    /\ UNCHANGED <<rule_out, ruleOthers>>

(* _get_reading_context of the anomaly over the store as it is now *)
ContextBuild ==
    /\ Len(rule_out) < MaxRuns
    /\ LET in == rule_in[1]
           reading == ReadingOf(in.anomaly_event, in.readings)
       IN  rule_out' = Append(rule_out,
                 [context |-> get_reading_context(in.anomaly_event, in.readings,
                                                  in.anomalies),
                  sample |-> context_readings(in.anomaly_event, reading, in.readings),
                  values |-> context_values(reading,
                                 context_readings(in.anomaly_event, reading, in.readings)),
                  later |-> Cardinality(LaterAnomalies(in))])
    /\ UNCHANGED <<rule_in, ruleOthers>>

NextContext == ContextInsertLater \/ ContextBuild

SpecContext == InitContext /\ [][NextContext]_vars

(* the AnomalyEvents of the anomaly's plot in the closed interval [t - 3h, t] *)
InTrailingWindow(in) ==
    {a \in in.anomalies :
        /\ a.plot = in.anomaly_event.plot
        /\ a.timestamp >= in.anomaly_event.timestamp - ContextWindowHours
        /\ a.timestamp <= in.anomaly_event.timestamp}

\* C21: multiple_anomalies of the context of an anomaly with timestamp t is
\* true exactly when at least 3 AnomalyEvents of its plot have a timestamp in
\* [t - 3h, t]; records with a later timestamp never change it, so every
\* rebuild of the context of the same anomaly gives the same value.
C21_MultipleAnomaliesTrailingWindow ==
    \A i \in 1..Len(rule_out) :
        /\ rule_out[i].context.multiple_anomalies
             = (Cardinality(InTrailingWindow(rule_in[1])) >= 3)
        /\ rule_out[i].context.multiple_anomalies
             = rule_out[1].context.multiple_anomalies

(* the readings that may enter the sample of the anomaly's context *)
EarlierOfStream(in) ==
    {r \in in.readings :
        /\ r.plot = in.anomaly_event.plot
        /\ r.sensor_type = ReadingOf(in.anomaly_event, in.readings).sensor_type
        /\ r.timestamp < ReadingOf(in.anomaly_event, in.readings).timestamp}

\* C22: the sample behind change_rate, trend and historical_avg is the
\* triggering reading followed by the at most 10 newest readings of the same
\* plot and sensor type with a strictly earlier timestamp, newest first; no
\* reading at or after that timestamp, of another plot or of another sensor
\* type is in it.
C22_HistoricalSample ==
    \A i \in 1..Len(rule_out) :
        LET sample == rule_out[i].sample
            values == rule_out[i].values
        IN  /\ Len(sample) = Min(ContextReadings, Cardinality(EarlierOfStream(rule_in[1])))
            /\ \A k \in 1..Len(sample) : sample[k] \in EarlierOfStream(rule_in[1])
            /\ \A k \in 1..(Len(sample) - 1) : sample[k].timestamp > sample[k + 1].timestamp
            /\ \A r \in EarlierOfStream(rule_in[1]) :
                  (\E k \in 1..Len(sample) : sample[k] = r)
                  \/ (\A k \in 1..Len(sample) : r.timestamp < sample[k].timestamp)
            /\ Len(values) = Len(sample) + 1
            /\ values[1] = ReadingOf(rule_in[1].anomaly_event, rule_in[1].readings).value
            /\ \A k \in 1..Len(sample) : values[k + 1] = sample[k].value
            /\ Len(sample) >= 2 =>
                  /\ rule_out[i].context.change_rate = Some(calculate_change_rate(values))
                  /\ rule_out[i].context.trend = determine_trend(values)
                  /\ rule_out[i].context.historical_avg
                       = Some(RoundDiv(Sum(values), Len(values) * 10) * 10)

C22_Witness ==
    /\ rule_out # <<>>
    /\ Len(rule_out[1].sample) = ContextReadings
    /\ Cardinality(EarlierOfStream(rule_in[1])) > ContextReadings
    /\ \E r \in rule_in[1].readings :
          /\ r.plot = rule_in[1].anomaly_event.plot
          /\ r.sensor_type = "moisture"
          /\ r.timestamp >= ReadingOf(rule_in[1].anomaly_event, rule_in[1].readings).timestamp
          /\ r.id # rule_in[1].anomaly_event.sensor_reading
    /\ \E r \in rule_in[1].readings : r.plot # rule_in[1].anomaly_event.plot
    /\ \E r \in rule_in[1].readings : r.sensor_type # "moisture"

-----------------------------------------------------------------------------
(* ai_agent/rule_engine.py: the temperature rule table. *)

IsTemperatureAnomaly(event) ==
    /\ ~Contains(Chars("moisture"), lower(event.anomaly_type))
    /\ Contains(Chars("temperature"), lower(event.anomaly_type))

\* C23: for every temperature anomaly whose current value is present, a value
\* above critical-high 32 yields the urgent heat-stress action, and otherwise
\* every value below critical-low 10 yields the urgent cold-protection action
\* with confidence min(model_confidence + 0.15, 1) and priority high, before
\* the change-rate, severity and default rules are considered.
C23_TemperatureCriticalFirst ==
    (/\ rule_out # <<>>
     /\ IsTemperatureAnomaly(rule_in[1].anomaly_event)
     /\ TriggerValueOf(rule_in[1]) # None) =>
        /\ TriggerValueOf(rule_in[1])[1] > critical_thresholds.temperature.critical_high =>
              /\ rule_out[1].analysis.outcome = "ok"
              /\ rule_out[1].analysis.result[1].recommended_action =
                   "URGENT: Heat stress mitigation - increase irrigation immediately and provide shade"
        /\ TriggerValueOf(rule_in[1])[1] < critical_thresholds.temperature.critical_low =>
              /\ rule_out[1].analysis.outcome = "ok"
              /\ LET r == rule_out[1].analysis.result[1]
                 IN  /\ r.recommended_action =
                          "URGENT: Cold protection required - risk of frost damage"
                     /\ r.priority = "high"
                     /\ r.confidence =
                          Min(rule_in[1].anomaly_event.model_confidence + 1500, One)

-----------------------------------------------------------------------------
(* ml_module: the tiers reachable under the default confidence gate. *)

\* C24: under the default min_confidence 0.999 every row with a non-positive
\* score that detect_with_confidence finally classifies as anomalous has
\* score <= -0.4995 and severity CRITICAL, never HIGH, MEDIUM or LOW, and
\* every AnomalyEvent the view creates from such rows is stored with
\* severity high.
C24_DefaultGateOnlyCritical ==
    (conf_out # <<>> /\ conf_in.min_confidence = DefaultMinConfidence) =>
        /\ \A i \in 1..Len(conf_out) :
              (conf_out[i].is_anomaly /\ conf_in.data[i].score <= 0) =>
                  /\ conf_in.data[i].score <= -4995
                  /\ conf_out[i].severity = "CRITICAL"
        /\ (\A i \in 1..Len(conf_in.data) : conf_in.data[i].score <= 0) =>
              \A k \in 1..Len(conf_events) : conf_events[k].severity = "high"

C24_Witness ==
    /\ conf_in.min_confidence = DefaultMinConfidence
    /\ Len(conf_in.data) = 2
    /\ conf_in.data[1] = [pred |-> -1, score |-> -4995]
    /\ conf_in.data[2] = [pred |-> -1, score |-> -4994]
    /\ Len(conf_events) = 1
    /\ conf_events[1].severity = "high"
    /\ conf_out[2].severity = "NORMAL"

-----------------------------------------------------------------------------
(* ml_module/views.py: what detection needs before it creates a record. *)

ModelUsable(sensor_type) == disk[sensor_type].kind = "complete"

EnoughReadings(plot_id, sensor_type) ==
    ml_readings[<<plot_id, sensor_type>>] >= WindowSize

(* the AnomalyEvent rows a detect or batch-detect response reports *)
EventsOf(resp) ==
    IF resp.status = 200
    THEN UNION {{resp.runs[i].events[k] : k \in 1..Len(resp.runs[i].events)} :
                   i \in 1..Len(resp.runs)}
    ELSE {}

\* C25: a detect or batch_detect step for a sensor type whose model file is
\* absent or unloadable, or for a (plot, sensor type) stream with fewer than
\* 10 readings, creates no AnomalyEvent and answers with a failure or a
\* skip; every AnomalyEvent a step creates is of a sensor type that was
\* trained and saved before, with a usable model and at least 10 readings.
C25_DetectionNeedsModelAndData ==
    [][(ml_resp' # ml_resp /\ ml_resp'.op \in {"detect", "batch_detect"}) =>
          LET resp == ml_resp'
          IN  /\ resp.op = "detect" =>
                    /\ ~ModelUsable(resp.sensor_type) =>
                          /\ resp.status = 400
                          /\ resp.error = "Model not trained"
                    /\ (/\ resp.plot_id \in FieldPlots
                        /\ ~EnoughReadings(resp.plot_id, resp.sensor_type)) =>
                          /\ resp.status = 400
                          /\ resp.error \in {"Model not trained", "Not enough data"}
              /\ resp.op = "batch_detect" =>
                    \A i \in 1..Len(resp.results) :
                        LET e == resp.results[i]
                        IN  e.plot_id \in FieldPlots =>
                              /\ ~ModelUsable(e.sensor_type) =>
                                    /\ e.status = "skipped"
                                    /\ e.detail = "model not trained"
                                    /\ e.runs = <<>>
                              /\ ~EnoughReadings(e.plot_id, e.sensor_type) =>
                                    /\ e.status = "skipped"
                                    /\ e.runs = <<>>
              /\ \A ev \in EventsOf(resp) :
                    \E s \in ml_saved :
                        /\ ev.anomaly_type = AnomalyTypeOf(s)
                        /\ ModelUsable(s)
                        /\ EnoughReadings(ev.plot, s)]_vars

C25_Witness ==
    /\ ml_resp.op = "batch_detect"
    /\ \E i \in 1..Len(ml_resp.results) :
          /\ ml_resp.results[i].status = "skipped"
          /\ ml_resp.results[i].detail = "model not trained"
          /\ ml_resp.results[i].sensor_type \in ml_saved
          /\ disk[ml_resp.results[i].sensor_type].kind = "partial"
          /\ EnoughReadings(ml_resp.results[i].plot_id, ml_resp.results[i].sensor_type)

-----------------------------------------------------------------------------
(* ai_agent/signals.py: the post_save handler beside process-pending.  The *)
(* handler runs in the request that saves the AnomalyEvent; a              *)
(* process-pending request of another client runs at the same time.        *)

SignalWorkers == {"signal", "pending"}

NextSignal ==
    \/ \E id \in AgentEventIds : \E priors \in AgentPriors(id) : SignalStart(id, priors)
    \/ \E id \in AgentEventIds : SignalSave(id)
    \/ PendingStart
    \/ \E w \in SignalWorkers, others \in {0, MaxOtherAnomalies} : ProcessCheck(w, others)
    \/ \E w \in SignalWorkers : ProcessCreate(w, TRUE)

SpecSignal == InitAgent /\ [][NextSignal]_vars

(* the handler's call of process_anomaly has just failed *)
HandlerFailed ==
    /\ ag_ret' # ag_ret
    /\ ag_ret'.worker = "signal"
    /\ ag_ret'.call.outcome # "ok"

IsPending(events, recs, id) ==
    \E i \in 1..Len(get_pending_anomalies(events, recs, None)) :
        get_pending_anomalies(events, recs, None)[i].id = id

(* what holds of every insert and of every later save *)
OneAttemptPerCreation ==
    /\ ag_events' # ag_events =>
          \E ev \in ag_events' \ ag_events :
              /\ ag_events' = ag_events \cup {ev}
              /\ ag_workers' = [ag_workers EXCEPT !["signal"] = Working(ev, <<>>, 0, 1)]
    /\ (ag_ret' # ag_ret /\ ag_ret'.worker = "save") =>
          /\ ag_workers' = ag_workers
          /\ ag_recs' = ag_recs
    /\ (ag_ret' # ag_ret /\ ag_ret'.worker = "signal") =>
          ag_workers'["signal"] = IdleWorker

\* C26 as stated: storing a new AnomalyEvent triggers exactly one
\* process_anomaly attempt for it and a later save of it triggers none; when
\* the attempt fails nothing reaches the creator, the record stays stored
\* without a recommendation and get_pending_anomalies returns it.
C26_FailedAttemptLeavesPending ==
    [][/\ OneAttemptPerCreation
       /\ HandlerFailed =>
             /\ ag_resp' = ag_resp
             /\ \E ev \in ag_events' : ev.id = ag_ret'.call.event
             /\ {r \in ag_recs' : r.anomaly_event = ag_ret'.call.event} = {}
             /\ IsPending(ag_events', ag_recs', ag_ret'.call.event)]_vars

\* C26 amended: one attempt per creation and none per later save; when the
\* attempt fails nothing reaches the creator, the record stays stored and the
\* attempt has added no recommendation; the record is without a
\* recommendation and returned by get_pending_anomalies unless a concurrent
\* request stored its recommendation first, which is the case in which the
\* attempt failed on the duplicate insert.
C26_FailedAttemptLeavesPendingUnlessRaced ==
    [][/\ OneAttemptPerCreation
       /\ HandlerFailed =>
             /\ ag_resp' = ag_resp
             /\ \E ev \in ag_events' : ev.id = ag_ret'.call.event
             /\ ag_recs' = ag_recs
             /\ IF ag_ret'.call.outcome = "IntegrityError"
                THEN /\ Cardinality({r \in ag_recs' :
                                       r.anomaly_event = ag_ret'.call.event}) = 1
                     /\ ~IsPending(ag_events', ag_recs', ag_ret'.call.event)
                ELSE /\ {r \in ag_recs' : r.anomaly_event = ag_ret'.call.event} = {}
                     /\ IsPending(ag_events', ag_recs', ag_ret'.call.event)]_vars

C26_Witness ==
    /\ ag_ret.worker = "signal"
    /\ ag_ret.call.outcome = "TypeError"
    /\ \E ev \in ag_events : ev.id = ag_ret.call.event
    /\ RecommendationsOf(ag_ret.call.event) = {}
    /\ IsPending(ag_events, ag_recs, ag_ret.call.event)
    /\ ag_workers["pending"].pc = "check"
    /\ ag_workers["pending"].event.id = ag_ret.call.event

-----------------------------------------------------------------------------
(* Functions of a series of values: the rule engine's _determine_trend and *)
(* the preprocessor's check_rapid_change.                                  *)

MaxSeries == 5

SeriesValues == {0, 50, 55, 100}
ThresholdPercents == {0, 10, 15}

(* a percent change kept as the exact fraction num / den *)
NoChange == [num |-> 0, den |-> 1]

ChangeLeq(c, d) == c.num * d.den <= d.num * c.den

(* check_rapid_change(values, threshold_percent): (has_rapid_change,       *)
(* max_change); values[1] is values[0] of the code                         *)
check_rapid_change(values, threshold_percent) ==
    LET changes == {[num |-> Abs(values[i] - values[i - 1]) * 100,
                     den |-> Abs(values[i - 1])] :
                        i \in {j \in 2..Len(values) : values[j - 1] # 0}}
        max_change == CHOOSE c \in changes : \A d \in changes : ChangeLeq(d, c)
    IN  IF Len(values) < 2 THEN <<FALSE, NoChange>>
        ELSE IF changes = {} THEN <<FALSE, NoChange>>
        ELSE <<max_change.num >= threshold_percent * max_change.den, max_change>>

InitSeries ==
    /\ pre_in \in [values : {<<>>} \cup SeqsUpTo(SeriesValues, MaxSeries),
                   threshold_percent : ThresholdPercents]
    /\ pre_out = <<>>
    /\ DetIdle
    /\ ConfIdle
    /\ RuleIdle
    /\ MLIdle
    /\ AgIdle
    /\ SimIdle

(* AgriculturalRuleEngine._determine_trend(values) *)
SeriesTrend ==
    /\ pre_out = <<>>
    /\ pre_out' = <<[op |-> "determine_trend", answer |-> determine_trend(pre_in.values)]>>
    /\ UNCHANGED <<pre_in, preOthers>>

(* SensorDataPreprocessor.check_rapid_change(values, threshold_percent) *)
SeriesRapidChange ==
    /\ pre_out = <<>>
    /\ pre_out' = <<[op |-> "check_rapid_change",
                     answer |-> check_rapid_change(pre_in.values,
                                                   pre_in.threshold_percent)]>>
    /\ UNCHANGED <<pre_in, preOthers>>

NextSeries == SeriesTrend \/ SeriesRapidChange

SpecSeries == InitSeries /\ [][NextSeries]_vars

(* the adjacent pairs of a newest-first sample in which the newer value is *)
(* greater, and smaller, than the older one                                *)
NewerGreater(values) ==
    Cardinality({i \in 1..(Len(values) - 1) : values[i] > values[i + 1]})

NewerSmaller(values) ==
    Cardinality({i \in 1..(Len(values) - 1) : values[i + 1] > values[i]})

MoreThan70Percent(n, values) == n * 10 > (Len(values) - 1) * 7

\* C27: with fewer than 3 values the trend is unknown; otherwise it is
\* increasing iff the pairs with a strictly greater newer value exceed 70% of
\* the len - 1 comparisons, else decreasing iff the pairs with a strictly
\* smaller newer value exceed 70%, else fluctuating; the two never apply
\* together, and equal adjacent values count for neither.
C27_TrendOfSample ==
    (pre_out # <<>> /\ pre_out[1].op = "determine_trend") =>
        LET values == pre_in.values
            up == MoreThan70Percent(NewerGreater(values), values)
            down == MoreThan70Percent(NewerSmaller(values), values)
            equal == Cardinality({i \in 1..(Len(values) - 1) : values[i] = values[i + 1]})
        IN  IF Len(values) < 3
            THEN pre_out[1].answer = "unknown"
            ELSE /\ ~(up /\ down)
                 /\ NewerGreater(values) + NewerSmaller(values) + equal = Len(values) - 1
                 /\ (pre_out[1].answer = "increasing") = up
                 /\ (pre_out[1].answer = "decreasing") = (~up /\ down)
                 /\ (pre_out[1].answer = "fluctuating") = (~up /\ ~down)

C27_Witness ==
    /\ pre_out # <<>>
    /\ pre_out[1].op = "determine_trend"
    /\ pre_in.values = <<100, 55, 50, 50, 0>>
    /\ pre_out[1].answer = "increasing"

(* the percent changes of the consecutive pairs with a non-zero predecessor *)
PercentChanges(values) ==
    {[num |-> Abs(values[i] - values[i - 1]) * 100, den |-> Abs(values[i - 1])] :
        i \in {j \in 2..Len(values) : values[j - 1] # 0}}

\* C30: check_rapid_change returns (flag, max) where max is the largest
\* percent change over the consecutive pairs with a non-zero predecessor and
\* flag tells whether any such change exceeds threshold_percent; with fewer
\* than two values, or when every predecessor is zero, it returns (false, 0).
C30_RapidChange ==
    (pre_out # <<>> /\ pre_out[1].op = "check_rapid_change") =>
        LET changes == PercentChanges(pre_in.values)
            flag == pre_out[1].answer[1]
            max == pre_out[1].answer[2]
        IN  IF changes = {}
            THEN ~flag /\ max.num = 0
            ELSE /\ \E c \in changes : ChangeLeq(c, max) /\ ChangeLeq(max, c)
                 /\ \A c \in changes : ChangeLeq(c, max)
                 /\ flag = (\E c \in changes :
                               c.num > pre_in.threshold_percent * c.den)

-----------------------------------------------------------------------------
(* The dispatch of analyze_anomaly as a function of the anomaly type name, *)
(* on given contexts.                                                      *)

UpperHumidity == <<"H", "U", "M", "I", "D", "I", "T", "Y", "_", "A", "l", "e", "r", "t">>

DispatchNames ==
    {AnomalyTypeOf(st) : st \in SensorTypes}
    \cup {SensorFault, UpperHumidity,
          Chars("temperature") \o <<"_">> \o Chars("moisture"),
          Chars("humidity") \o <<"_">> \o Chars("temperature"),
          Chars("humidity") \o <<"_">> \o Chars("moisture")}

DispatchContexts ==
    {[recent_value |-> Some(v), change_rate |-> Some(cr), trend |-> "fluctuating",
      multiple_anomalies |-> FALSE, sensor_type |-> Some("moisture"),
      historical_avg |-> Some(5000), time_of_day |-> Some(12)] :
        v \in {3000, 5000}, cr \in {0, -2000}}

InitDispatch ==
    /\ \E name \in DispatchNames, sev \in Severities, context \in DispatchContexts :
          rule_in = <<[anomaly_event |-> [id |-> 1, plot |-> 1, sensor_reading |-> 1,
                                          anomaly_type |-> name, severity |-> sev,
                                          model_confidence |-> 8560, timestamp |-> 12],
                       context |-> context]>>
    /\ rule_out = <<>>
    /\ DetIdle
    /\ ConfIdle
    /\ MLIdle
    /\ AgIdle
    /\ PreIdle
    /\ SimIdle

(* lines 55-63 of analyze_anomaly on the context of rule_in *)
DispatchAnalyze ==
    /\ rule_out = <<>>
    /\ rule_out' = <<[analysis |-> analyze_with_context(rule_in[1].anomaly_event,
                                                        rule_in[1].context)]>>
    /\ UNCHANGED <<rule_in, ruleOthers>>

NextDispatch == DispatchAnalyze

SpecDispatch == InitDispatch /\ [][NextDispatch]_vars

(* the answer of the rule set named set *)
RuleSetAnswer(set, anomaly_event, context) ==
    CASE set = "moisture" -> analyze_moisture_anomaly(anomaly_event, context)
      [] set = "temperature" -> analyze_temperature_anomaly(anomaly_event, context)
      [] set = "humidity" -> analyze_humidity_anomaly(anomaly_event, context)
      [] OTHER -> analyze_generic_anomaly(anomaly_event, context)

(* the rule set the claim gives a name *)
ClaimedRuleSet(name) ==
    IF Contains(Chars("moisture"), lower(name)) THEN "moisture"
    ELSE IF Contains(Chars("temperature"), lower(name)) THEN "temperature"
    ELSE IF Contains(Chars("humidity"), lower(name)) THEN "humidity"
    ELSE "generic"

\* C28: the rule set that answers depends only on the lower-cased anomaly
\* type name: moisture rules for a name containing 'moisture', otherwise
\* temperature rules for one containing 'temperature', otherwise humidity
\* rules for one containing 'humidity', generic rules for every other name;
\* a record named '<sensor type>_anomaly' gets the rules of its sensor type.
C28_DispatchBySubstring ==
    rule_out # <<>> =>
        /\ rule_out[1].analysis =
              RuleSetAnswer(ClaimedRuleSet(rule_in[1].anomaly_event.anomaly_type),
                            rule_in[1].anomaly_event, rule_in[1].context)
        /\ \A st \in SensorTypes :
              rule_in[1].anomaly_event.anomaly_type = AnomalyTypeOf(st) =>
                  rule_out[1].analysis =
                      RuleSetAnswer(st, rule_in[1].anomaly_event, rule_in[1].context)

C28_Witness ==
    /\ rule_out # <<>>
    /\ rule_in[1].anomaly_event.anomaly_type =
          Chars("temperature") \o <<"_">> \o Chars("moisture")
    /\ rule_out[1].analysis.outcome = "ok"
    /\ rule_out[1].analysis =
          analyze_moisture_anomaly(rule_in[1].anomaly_event, rule_in[1].context)
    /\ rule_out[1].analysis #
          analyze_temperature_anomaly(rule_in[1].anomaly_event, rule_in[1].context)

-----------------------------------------------------------------------------
(* simulators/anomaly_scenarios.py: AnomalyScenario and AnomalyManager.    *)
(*                                                                         *)
(* Time is datetime.now() in whole minutes since simulation_start; a       *)
(* scenario's start_hour is kept in minutes too.  One update() reads the   *)
(* clock once.  The scenarios are SuddenDropScenario instances (target     *)
(* drop 25.0); readings are in units of 0.01.  The fields activations,     *)
(* deactivations and updated of a scenario are history: the calls of       *)
(* activate() and deactivate() so far and the time of the last update().   *)

MaxSimMinutes == 4

ScenarioStarts == {0, 1, 2}
ScenarioDurations == {1, 2}

Scenario(start_hour, duration_minutes) ==
    [start_hour |-> start_hour, duration_minutes |-> duration_minutes,
     is_active |-> FALSE, start_time |-> None,
     activations |-> 0, deactivations |-> 0, updated |-> None]

(* should_activate(hours_since_start) *)
should_activate(self, now) ==
    now >= self.start_hour /\ ~self.is_active

(* is_expired() *)
is_expired(self, now) ==
    IF ~self.is_active \/ self.start_time = None THEN FALSE
    ELSE now - self.start_time[1] >= self.duration_minutes

(* activate() *)
activate(self, now) ==
    [self EXCEPT !.is_active = TRUE, !.start_time = Some(now),
                 !.activations = @ + 1]

(* deactivate() *)
deactivate(self) ==
    [self EXCEPT !.is_active = FALSE, !.deactivations = @ + 1]

(* the body of the loop of AnomalyManager.update() for one scenario *)
update_scenario(self, now) ==
    LET checked == IF should_activate(self, now) THEN activate(self, now) ELSE self
    IN  [(IF is_expired(checked, now) THEN deactivate(checked) ELSE checked)
            EXCEPT !.updated = Some(now)]

(* target_drop * (1 - exp(-5 * progress)) for progress = min(1, elapsed /   *)
(* duration): 0 at progress 0, 22.95 at 1/2, 24.83 at 1                     *)
drop_of(elapsed, duration_minutes) ==
    CASE elapsed <= 0 -> 0
      [] elapsed > 0 /\ elapsed >= duration_minutes -> 2483
      [] elapsed > 0 /\ 2 * elapsed = duration_minutes -> 2295

(* SuddenDropScenario.modify_reading *)
scenario_modify_reading(self, now, sensor_type, normal_value) ==
    IF ~self.is_active THEN normal_value
    ELSE IF sensor_type = "moisture"
    THEN LET lowered == normal_value - drop_of(now - self.start_time[1],
                                               self.duration_minutes)
         IN  IF lowered > 2500 THEN lowered ELSE 2500
    ELSE normal_value

(* AnomalyManager.modify_reading: the active scenarios, in order *)
manager_modify_reading(scenarios, now, sensor_type, normal_value) ==
    LET modified[i \in 0..Len(scenarios)] ==
            IF i = 0 THEN normal_value
            ELSE IF scenarios[i].is_active
                 THEN scenario_modify_reading(scenarios[i], now, sensor_type,
                                              modified[i - 1])
                 ELSE modified[i - 1]
    IN  modified[Len(scenarios)]

InitSim ==
    /\ sim_now = 0
    /\ \E s1, s2 \in ScenarioStarts, d1, d2 \in ScenarioDurations :
          sim_scenarios = <<Scenario(s1, d1), Scenario(s2, d2)>>
    /\ sim_reading = <<>>
    /\ DetIdle
    /\ ConfIdle
    /\ RuleIdle
    /\ MLIdle
    /\ AgIdle
    /\ PreIdle

(* a minute passes *)
SimTick ==
    /\ sim_now < MaxSimMinutes
    /\ sim_now' = sim_now + 1
    /\ UNCHANGED <<sim_scenarios, sim_reading, simOthers>>

(* AnomalyManager.update() *)
SimUpdate ==
    /\ sim_scenarios' = [i \in 1..Len(sim_scenarios) |->
                            update_scenario(sim_scenarios[i], sim_now)]
    /\ UNCHANGED <<sim_now, sim_reading, simOthers>>

(* AnomalyManager.modify_reading(sensor_type, normal_value) *)
SimModifyReading(sensor_type, normal_value) ==
    /\ sim_reading' =
          [sensor_type |-> sensor_type, normal_value |-> normal_value,
           value |-> manager_modify_reading(sim_scenarios, sim_now, sensor_type,
                                            normal_value),
           active |-> Cardinality({i \in 1..Len(sim_scenarios) :
                                     sim_scenarios[i].is_active})]
    /\ UNCHANGED <<sim_now, sim_scenarios, simOthers>>

NextSim ==
    \/ SimTick
    \/ SimUpdate
    \/ \E st \in {"moisture", "temperature"}, v \in {2000, 6000} : SimModifyReading(st, v)

SpecSim == InitSim /\ [][NextSim]_vars

\* C29: each registered scenario is active during one contiguous interval
\* only: an update() at or after start_hour activates it, the first update()
\* at which duration_minutes have elapsed since the activation deactivates
\* it, and it is never activated again; modify_reading changes a reading
\* only while a scenario is active.
C29_ScenarioLifecycle ==
    /\ \A i \in 1..Len(sim_scenarios) :
          LET s == sim_scenarios[i]
          IN  /\ s.activations <= 1
              /\ s.deactivations <= s.activations
              /\ s.is_active = (s.activations = s.deactivations + 1)
              /\ s.is_active => s.start_time[1] >= s.start_hour
              /\ (s.updated # None /\ s.updated[1] >= s.start_hour) =>
                    s.activations >= 1
              /\ (s.updated # None /\ s.is_active) =>
                    s.updated[1] - s.start_time[1] < s.duration_minutes
    /\ (sim_reading # <<>> /\ sim_reading.value # sim_reading.normal_value) =>
          sim_reading.active > 0

====
